---- MODULE Spec2Model ----
(***************************************************************************)
(* A model of pylode's graph-to-model extraction engine.                   *)
(*                                                                         *)
(* Two implementations live side by side in the repository:                *)
(*   - OntologyProcessor / HTMLGenerator (src/src/pylode/core), keyed by   *)
(*     generic dictionaries;                                               *)
(*   - OntologyParser (src/pylode/parser.py), keyed by typed records.      *)
(* Both walk an rdflib graph.  The graph is modelled as a function from a  *)
(* subject to the sequence of its (predicate, object) pairs in triple      *)
(* encounter order, and the recursive walks as a machine with an explicit  *)
(* call stack, one action per call, loop iteration or return.              *)
(***************************************************************************)
EXTENDS Naturals, Sequences, FiniteSets, TLC

VARIABLES
    impl,        \* which implementation runs: "processor" or "parser"
    graph,       \* subject |-> sequence of [p, o] pairs, in encounter order
    defined_resources, \* OntologyParser.defined_resources
    stack,       \* the call stack of the walk
    record,      \* the class record under construction / produced
    pc,          \* "run" while the walk is going, "done" when it returned
    input,       \* the member sequence an encoded list was built from
    predicates,  \* Literal Resolver: the predicate list it is called with
    resolved,    \* Literal Resolver: the (preferred, others) pair returned
    entity_uri,  \* pseudo-prefix derivation: the URI it is called with
    namespace_prefix,  \* pseudo-prefix derivation: the value returned
    entities,    \* Uniqueness Resolver: the classes, properties, individuals
    namespaces,  \* Uniqueness Resolver: the prefix table, in dict order
    unique_labels, \* Uniqueness Resolver: the URI -> label dict returned
    name_subject, \* Name Resolver: the node it is called with
    qname,       \* Name Resolver: what graph.compute_qname(subject) does
    resolved_name, \* Name Resolver: the outcome of _get_label_or_qname
    options,     \* process(): the ProcessingOptions it is called with
    environment, \* process(): what the parsers, the fetcher and the reasoner do
    process_pc,  \* process(): the statement it stands at
    self_graph,  \* process(): OntologyProcessor.graph
    tmp_file,    \* process(): the temporary file of _apply_reasoning
    warnings,    \* process(): the warnings printed
    process_outcome, \* process(): what it returned or raised
    subject_order, \* extraction: the subjects in the store's encounter order
    bindings,    \* extraction: the prefix table of the graph's namespace manager
    extract_pc,  \* extraction: the component the run extracts next
    model,       \* extraction: the documentation model of the run under way
    models,       \* extraction: the documentation models of the finished runs
    bnode,  \* generic blank-node fallback: the node it is called with
    bnode_resolved,  \* generic blank-node fallback: what _resolve_blank_node returned
    ontology_node,  \* get_metadata: OntologyParser.ontology_node
    metadata,  \* get_metadata: the OntologyMetadata it returned
    comment_block,  \* _get_comment_with_translations: the value it returned
    label_entity,  \* _get_entity_label: the entity dict it is called with
    label_lang,  \* _get_entity_label: the requested language
    entity_label,  \* _get_entity_label: the value it returned
    fetch_pc,  \* fetch_from_url: the statement it stands at
    mime_index,  \* fetch_from_url: the position of the loop in EXTENDED_MIME_TYPES
    requests_sent,  \* fetch_from_url: the session.get calls made so far
    fetch_errors,  \* fetch_from_url: errors
    fetch_outcome,  \* fetch_from_url: what it returned or raised
    import_pc,  \* _process_imports: the statement it stands at
    import_options,  \* _process_imports: options
    web,  \* _process_imports: the owl:imports objects of each ontology that can be fetched
    graph_imports,  \* _process_imports: the owl:imports objects in self.graph
    imports_to_process,  \* _process_imports: imports_to_process
    current_imports,  \* _process_imports: the imports of the round not yet handled
    imported_ontologies,  \* _process_imports: self.imported_ontologies
    depth,  \* _process_imports: depth
    rounds,  \* _process_imports: the rounds of the while loop begun so far
    loads,  \* _process_imports: the URIs _load_import was called with, in order
    failed_loads,  \* _process_imports: the URIs a warning was printed for
    imports_outcome,  \* _process_imports: whether it returned or raised
    target_label  \* _get_elements_from_target: the label of the Element it returned for a named node

walk_vars == <<impl, defined_resources, stack, record, pc, input>>
literal_vars == <<predicates, resolved>>
label_vars == <<entity_uri, namespace_prefix, entities, namespaces, unique_labels>>
name_vars == <<name_subject, qname, resolved_name>>
process_vars ==
    <<options, environment, process_pc, self_graph, tmp_file, warnings,
      process_outcome>>
extract_vars == <<subject_order, bindings, extract_pc, model, models>>
blank_vars == <<bnode, bnode_resolved>>
meta_vars == <<ontology_node, metadata>>
comment_vars == <<comment_block>>
elabel_vars == <<label_entity, label_lang, entity_label>>
fetch_vars == <<fetch_pc, mime_index, requests_sent, fetch_errors, fetch_outcome>>
imports_vars == <<import_pc, import_options, web, graph_imports, imports_to_process, current_imports, imported_ontologies, depth, rounds, loads, failed_loads, imports_outcome>>
target_vars == <<target_label>>
late_vars == <<blank_vars, meta_vars, comment_vars, elabel_vars, fetch_vars, imports_vars, target_vars>>
rest_vars == <<name_vars, process_vars, extract_vars, late_vars>>
vars == <<graph, walk_vars, literal_vars, label_vars, rest_vars>>

-----------------------------------------------------------------------------
(* Bounds of the model *)

MaxPreds == 3      \* predicates carried by the decoded anonymous node
MaxLen == 3        \* members of an encoded RDF list
MaxIter == 5       \* loop iterations of one list walk the model follows
MaxDepth == 5      \* call-stack depth the model follows
MaxCandidates == 3 \* annotation triples of the subject the Literal Resolver reads
MaxEntities == 3   \* entities handed to the Uniqueness Resolver
MaxNamespaces == 2 \* entries of the prefix table
MaxLabels == 2     \* rdfs:label triples of the node the Name Resolver reads
MaxDigits == 2     \* digits of a generated prefix the model spells out
MaxTypes == 2      \* rdf:type assertions of the subject the extraction reads
MaxRuns == 2       \* extraction runs over one graph
MaxBlankPairs == 4 \* triples of the blank node the generic fallback reads

-----------------------------------------------------------------------------
(* RDF terms: URIRef, BNode, Literal; Python's None *)

U(x) == [k |-> "uri", v |-> x, lang |-> ""]
BN(x) == [k |-> "bnode", v |-> x, lang |-> ""]
Lit(x, l) == [k |-> "lit", v |-> x, lang |-> l]
NoneT == [k |-> "none", v |-> "", lang |-> ""]
Nil == U("rdf:nil")

\* None where a dict (or typed record) is expected
NoneV == [type |-> "none"]

\* str(term)
Str(t) == t.v

\* bool(term): a URIRef or BNode is a non-empty string; a Literal is false
\* when its value is (0, empty string); None is false
Truthy(t) ==
    /\ t.k # "none"
    /\ ~(t.k = "lit" /\ t.v \in {"0", ""})

RECURSIVE SelectObjects(_, _)
SelectObjects(pairs, p) ==
    IF pairs = <<>> THEN <<>>
    ELSE (IF Head(pairs).p = p THEN <<Head(pairs).o>> ELSE <<>>)
         \o SelectObjects(Tail(pairs), p)

\* list(self.graph.objects(node, p))
Objects(node, p) ==
    IF node.k # "lit" /\ node.k # "none" /\ node.v \in DOMAIN graph
    THEN SelectObjects(graph[node.v], p)
    ELSE <<>>

\* self.graph.value(node, p)
Value(node, p) ==
    IF Objects(node, p) = <<>> THEN NoneT ELSE Objects(node, p)[1]

\* (s, p, o) in self.graph
Contains(s, p, o) == \E i \in 1..Len(Objects(s, p)) : Objects(s, p)[i] = o

-----------------------------------------------------------------------------
(* The call stack *)

Frame(fn, node) ==
    [fn |-> fn, ph |-> "call", node |-> node, kind |-> "", cur |-> NoneT,
     members |-> <<>>, val |-> NoneV, iters |-> 0, idx |-> 1]

Top == stack[Len(stack)]
Below == stack[Len(stack) - 1]
SetTop(f) == [stack EXCEPT ![Len(stack)] = f]
Call(f, callee) == Append(SetTop(f), callee)
ReturnTo(f) == [SubSeq(stack, 1, Len(stack) - 1) EXCEPT ![Len(stack) - 1] = f]

\* a plain string held in a list that also holds dicts
StrItem(x) == [type |-> "str", value |-> x]

\* Optional[str]
None == <<>>
Some(x) == <<x>>

-----------------------------------------------------------------------------
(* OntologyProcessor: the Expression Decoder *)

restriction_types ==
    << <<"someValuesFrom", "some">>,
       <<"allValuesFrom", "all">>,
       <<"hasValue", "value">>,
       <<"minCardinality", "min">>,
       <<"maxCardinality", "max">>,
       <<"cardinality", "exactly">>,
       <<"minQualifiedCardinality", "min_qualified">>,
       <<"maxQualifiedCardinality", "max_qualified">>,
       <<"qualifiedCardinality", "exactly_qualified">> >>

\* 'qualified' in restriction_type
HasQualified(rt) == rt \in {"min_qualified", "max_qualified", "exactly_qualified"}

\* the dict built for a restriction; on_class only for the qualified kinds
\* and only when the node has an owl:onClass
RestrictionDict(node, i) ==
    LET base == [type |-> "restriction",
                 restriction_type |-> restriction_types[i][2],
                 property |-> Str(Objects(node, "onProperty")[1]),
                 value |-> Str(Objects(node, restriction_types[i][1])[1])]
    IN  IF HasQualified(restriction_types[i][2]) /\ Objects(node, "onClass") # <<>>
        THEN [type |-> base.type,
              restriction_type |-> base.restriction_type,
              property |-> base.property,
              value |-> base.value,
              on_class |-> Str(Objects(node, "onClass")[1])]
        ELSE base

\* the for loop over restriction_types, from entry i on
RECURSIVE RestrictionLoop(_, _)
RestrictionLoop(node, i) ==
    IF i > Len(restriction_types) THEN NoneV
    ELSE IF /\ Objects(node, restriction_types[i][1]) # <<>>
            /\ Objects(node, "onProperty") # <<>>
         THEN RestrictionDict(node, i)
         ELSE RestrictionLoop(node, i + 1)

\* the mutation of the dispatch: the enumeration is tried before the
\* combinators
ListCaseEnumerationFirst(node) ==
    IF RestrictionLoop(node, 1) # NoneV THEN ""
    ELSE IF Objects(node, "oneOf") # <<>> THEN "enumeration"
    ELSE IF Objects(node, "unionOf") # <<>> THEN "union"
    ELSE IF Objects(node, "intersectionOf") # <<>> THEN "intersection"
    ELSE ""

\* which list predicate _process_class_expression follows, if any
ListCase(node) ==
    IF RestrictionLoop(node, 1) # NoneV THEN ""
    ELSE IF Objects(node, "unionOf") # <<>> THEN "union"
    ELSE IF Objects(node, "intersectionOf") # <<>> THEN "intersection"
    ELSE IF Objects(node, "complementOf") # <<>> THEN ""
    ELSE IF Objects(node, "oneOf") # <<>> THEN "enumeration"
    ELSE ""

ListHead(node) ==
    Objects(node, CASE ListCase(node) = "union" -> "unionOf"
                    [] ListCase(node) = "intersection" -> "intersectionOf"
                    [] OTHER -> "oneOf")[1]

\* what _process_class_expression returns without walking a list
DirectResult(node) ==
    IF RestrictionLoop(node, 1) # NoneV THEN RestrictionLoop(node, 1)
    ELSE IF Objects(node, "complementOf") # <<>>
         THEN [type |-> "complement", class |-> Str(Objects(node, "complementOf")[1])]
         ELSE NoneV

\* _process_class_expression(node), up to its call of _process_list
process_class_expression ==
    /\ pc = "run" /\ stack # <<>>
    /\ Top.fn = "expr" /\ Top.ph = "call"
    /\ IF ListCase(Top.node) = ""
       THEN stack' = SetTop([Top EXCEPT !.ph = "ret", !.val = DirectResult(Top.node)])
       ELSE /\ Len(stack) < MaxDepth
            /\ stack' = Call([Top EXCEPT !.ph = "wait", !.kind = ListCase(Top.node)],
                             [Frame("list", NoneT) EXCEPT !.ph = "loop",
                                                          !.cur = ListHead(Top.node)])
    /\ UNCHANGED <<impl, graph, defined_resources, record, pc, input,
                 literal_vars, label_vars, rest_vars>>

\* rest = list(objects(current, RDF.rest)); current = rest[0] if rest else None
NextCurrent(cur) == Value(cur, "rest")

\* the mutation of the member collection: the member is put in front
PrependMember(members, member) == <<StrItem(Str(member))>> \o members

\* members after the member `first` was handled, for a member that is no BNode
AppendMember(members, member) == Append(members, StrItem(Str(member)))

\* one iteration of the while loop of _process_list (up to the recursive
\* call when the member is a BNode), or its exit
process_list ==
    /\ pc = "run" /\ stack # <<>>
    /\ Top.fn = "list" /\ Top.ph = "loop"
    /\ IF ~(Truthy(Top.cur) /\ Top.cur # Nil)
       THEN stack' = SetTop([Top EXCEPT !.ph = "ret"])
       ELSE /\ Top.iters < MaxIter
            /\ LET first == Objects(Top.cur, "first")
                   f == [Top EXCEPT !.iters = @ + 1]
               IN  IF first = <<>>
                   THEN stack' = SetTop([f EXCEPT !.cur = NextCurrent(Top.cur)])
                   ELSE IF first[1].k = "bnode"
                   THEN /\ Len(stack) < MaxDepth
                        /\ stack' = Call([f EXCEPT !.ph = "await"],
                                         Frame("expr", first[1]))
                   ELSE stack' = SetTop([f EXCEPT
                                    !.members = AppendMember(@, first[1]),
                                    !.cur = NextCurrent(Top.cur)])
    /\ UNCHANGED <<impl, graph, defined_resources, record, pc, input,
                 literal_vars, label_vars, rest_vars>>

\* _process_list returns its members to _process_class_expression
process_list_return ==
    /\ pc = "run" /\ Len(stack) > 1
    /\ Top.fn = "list" /\ Top.ph = "ret"
    /\ Below.fn = "expr" /\ Below.ph = "wait"
    /\ stack' = ReturnTo([Below EXCEPT
                    !.ph = "ret",
                    !.val = [type |-> Below.kind, members |-> Top.members]])
    /\ UNCHANGED <<impl, graph, defined_resources, record, pc, input,
                 literal_vars, label_vars, rest_vars>>

\* restrictions after get_classes looked at the decoded expression
AppendIfTruthy(seq, val) == IF val # NoneV THEN Append(seq, val) ELSE seq

\* _process_class_expression returns, to _process_list or to get_classes
process_class_expression_return ==
    /\ pc = "run" /\ Len(stack) > 1
    /\ Top.fn = "expr" /\ Top.ph = "ret"
    /\ \/ /\ Below.fn = "list" /\ Below.ph = "await"
          /\ stack' = ReturnTo([Below EXCEPT
                          !.ph = "loop",
                          !.members = AppendIfTruthy(@, Top.val),
                          !.cur = NextCurrent(Below.cur)])
          /\ UNCHANGED record
       \/ /\ Below.fn = "cls" /\ Below.ph = "await"
          /\ stack' = ReturnTo([Below EXCEPT !.ph = "loop", !.idx = @ + 1])
          /\ record' = [record EXCEPT !.restrictions = AppendIfTruthy(@, Top.val)]
    /\ UNCHANGED <<impl, graph, defined_resources, pc, input,
                 literal_vars, label_vars, rest_vars>>

\* get_classes, for one class: the loop over its rdfs:subClassOf objects
get_classes ==
    /\ pc = "run" /\ stack # <<>> /\ impl = "processor"
    /\ Top.fn = "cls" /\ Top.ph \in {"call", "loop"}
    /\ LET objs == Objects(Top.node, "subClassOf")
       IN  IF Top.ph = "call"
           THEN /\ record' = [uri |-> Str(Top.node), superclasses |-> <<>>,
                              restrictions |-> <<>>]
                /\ stack' = SetTop([Top EXCEPT !.ph = "loop"])
                /\ pc' = pc
           ELSE IF Top.idx > Len(objs)
           THEN /\ stack' = <<>>
                /\ pc' = "done"
                /\ UNCHANGED record
           ELSE IF objs[Top.idx].k = "uri"
           THEN /\ record' = [record EXCEPT
                        !.superclasses = Append(@, Str(objs[Top.idx]))]
                /\ stack' = SetTop([Top EXCEPT !.idx = @ + 1])
                /\ pc' = pc
           ELSE IF objs[Top.idx].k = "bnode"
           THEN /\ stack' = Call([Top EXCEPT !.ph = "await"],
                                 Frame("expr", objs[Top.idx]))
                /\ UNCHANGED <<record, pc>>
           ELSE /\ stack' = SetTop([Top EXCEPT !.idx = @ + 1])
                /\ UNCHANGED <<record, pc>>
    /\ UNCHANGED <<impl, graph, defined_resources, input,
                 literal_vars, label_vars, rest_vars>>

-----------------------------------------------------------------------------
(* OntologyParser: restrictions and their targets *)

\* _resolve_url(uri)
resolve_url(uri) == IF uri \in defined_resources THEN "#" \o uri ELSE uri

\* the Element dataclass; url defaults to None.  label and other_labels come
\* from the Name and Literal Resolvers and are not part of this record.
Element(uri, type_label, url) ==
    [uri |-> uri, type_label |-> type_label, url |-> url]

\* _create_element(node, type_label)
create_element(node, type_label) ==
    Element(Str(node), type_label, Some(resolve_url(Str(node))))

\* the Restriction dataclass
Restriction(on_property, type, amount, values, literal_value) ==
    [type |-> "Restriction", on_property |-> on_property, rtype |-> type,
     amount |-> amount, values |-> values, literal_value |-> literal_value]

\* Python's `a or b`
Or(a, b) == IF Truthy(a) THEN a ELSE b

\* the badge of the restricted property
PropType(on_prop) ==
    IF Contains(on_prop, "type", U("owl:DatatypeProperty")) THEN "dp"
    ELSE IF Contains(on_prop, "type", U("owl:AnnotationProperty")) THEN "ap"
    ELSE "op"

\* the target node _parse_restriction hands to _get_elements_from_target, if any
TargetCase(node) ==
    IF ~Truthy(Value(node, "onProperty")) THEN ""
    ELSE IF Truthy(Value(node, "someValuesFrom")) THEN "some"
    ELSE IF Truthy(Value(node, "allValuesFrom")) THEN "only"
    ELSE ""

\* what _parse_restriction returns when it resolves no target
CardinalityResult(node) ==
    LET prop_element == create_element(Value(node, "onProperty"),
                                       PropType(Value(node, "onProperty")))
        has_value == Value(node, "hasValue")
        min_card == Or(Value(node, "minCardinality"),
                       Value(node, "minQualifiedCardinality"))
        max_card == Or(Value(node, "maxCardinality"),
                       Value(node, "maxQualifiedCardinality"))
        card == Or(Value(node, "cardinality"), Value(node, "qualifiedCardinality"))
    IN  IF ~Truthy(Value(node, "onProperty")) THEN NoneV
        ELSE IF Truthy(has_value)
        THEN Restriction(prop_element, "value", None, <<>>, Some(Str(has_value)))
        ELSE IF Truthy(min_card)
        THEN Restriction(prop_element, "min", Some(Str(min_card)), <<>>, None)
        ELSE IF Truthy(max_card)
        THEN Restriction(prop_element, "max", Some(Str(max_card)), <<>>, None)
        ELSE IF Truthy(card)
        THEN Restriction(prop_element, "exactly", Some(Str(card)), <<>>, None)
        ELSE NoneV

\* _parse_restriction(node), up to its call of _get_elements_from_target
parse_restriction ==
    /\ pc = "run" /\ stack # <<>>
    /\ Top.fn = "restr" /\ Top.ph = "call"
    /\ IF TargetCase(Top.node) = ""
       THEN stack' = SetTop([Top EXCEPT !.ph = "ret",
                                        !.val = CardinalityResult(Top.node)])
       ELSE /\ Len(stack) < MaxDepth
            /\ stack' = Call([Top EXCEPT !.ph = "wait", !.kind = TargetCase(Top.node)],
                             Frame("target",
                                   Value(Top.node, IF TargetCase(Top.node) = "some"
                                                   THEN "someValuesFrom"
                                                   ELSE "allValuesFrom")))
    /\ UNCHANGED <<impl, graph, defined_resources, record, pc, input,
                 literal_vars, label_vars, rest_vars>>

\* the single Element returned for a node that is not a union: built
\* without a url, for an anonymous node and for a named one alike
TargetElement(node) == <<Element(Str(node), "c", None)>>

\* _get_elements_from_target(node): the entry, and one iteration of its
\* while loop over the unionOf list (up to the recursive call)
get_elements_from_target ==
    /\ pc = "run" /\ stack # <<>>
    /\ Top.fn = "target"
    /\ \/ /\ Top.ph = "call"
          /\ IF Top.node.k = "bnode" /\ Truthy(Value(Top.node, "unionOf"))
             THEN stack' = SetTop([Top EXCEPT !.ph = "loop",
                                              !.cur = Value(Top.node, "unionOf")])
             ELSE stack' = SetTop([Top EXCEPT !.ph = "ret",
                                              !.members = TargetElement(Top.node)])
       \/ /\ Top.ph = "loop"
          /\ IF Top.cur = Nil
             THEN stack' = SetTop([Top EXCEPT !.ph = "ret"])
             ELSE /\ Top.iters < MaxIter
                  /\ LET first == Value(Top.cur, "first")
                         rest == Value(Top.cur, "rest")
                         f == [Top EXCEPT !.iters = @ + 1]
                     IN  IF Truthy(first)
                         THEN /\ Len(stack) < MaxDepth
                              /\ stack' = Call([f EXCEPT !.ph = "await"],
                                               Frame("target", first))
                         ELSE stack' = SetTop([f EXCEPT
                                  !.cur = rest,
                                  !.ph = IF Truthy(rest) THEN "loop" ELSE "ret"])
    /\ UNCHANGED <<impl, graph, defined_resources, record, pc, input,
                 literal_vars, label_vars, rest_vars>>

\* _get_elements_from_target returns, to its own loop or to _parse_restriction
get_elements_from_target_return ==
    /\ pc = "run" /\ Len(stack) > 1
    /\ Top.fn = "target" /\ Top.ph = "ret"
    /\ \/ /\ Below.fn = "target" /\ Below.ph = "await"
          /\ LET rest == Value(Below.cur, "rest")
             IN  stack' = ReturnTo([Below EXCEPT
                              !.members = @ \o Top.members,
                              !.cur = rest,
                              !.ph = IF Truthy(rest) THEN "loop" ELSE "ret"])
       \/ /\ Below.fn = "restr" /\ Below.ph = "wait"
          /\ stack' = ReturnTo([Below EXCEPT
                          !.ph = "ret",
                          !.val = Restriction(
                                      create_element(Value(Below.node, "onProperty"),
                                                     PropType(Value(Below.node, "onProperty"))),
                                      Below.kind, None, Top.members, None)])
    /\ UNCHANGED <<impl, graph, defined_resources, record, pc, input,
                 literal_vars, label_vars, rest_vars>>

\* the non-BNode objects of subject for predicate p, as Elements
RECURSIVE NamedElements(_, _)
NamedElements(objs, type_label) ==
    IF objs = <<>> THEN <<>>
    ELSE (IF Head(objs).k = "bnode" THEN <<>>
          ELSE <<create_element(Head(objs), type_label)>>)
         \o NamedElements(Tail(objs), type_label)

\* _create_class(node): the record and its superclass list, then the loop
\* over the rdfs:subClassOf objects that are BNodes typed owl:Restriction
create_class ==
    /\ pc = "run" /\ stack # <<>> /\ impl = "parser"
    /\ Top.fn = "cls" /\ Top.ph \in {"call", "loop"}
    /\ LET objs == Objects(Top.node, "subClassOf")
       IN  IF Top.ph = "call"
           THEN /\ record' = [uri |-> Str(Top.node),
                              type_label |-> "c",
                              url |-> Some(resolve_url(Str(Top.node))),
                              super_classes |-> NamedElements(objs, "c"),
                              restrictions |-> <<>>]
                /\ stack' = SetTop([Top EXCEPT !.ph = "loop"])
                /\ pc' = pc
           ELSE IF Top.idx > Len(objs)
           THEN /\ stack' = <<>>
                /\ pc' = "done"
                /\ UNCHANGED record
           ELSE IF /\ objs[Top.idx].k = "bnode"
                   /\ Contains(objs[Top.idx], "type", U("owl:Restriction"))
           THEN /\ stack' = Call([Top EXCEPT !.ph = "await"],
                                 Frame("restr", objs[Top.idx]))
                /\ UNCHANGED <<record, pc>>
           ELSE /\ stack' = SetTop([Top EXCEPT !.idx = @ + 1])
                /\ UNCHANGED <<record, pc>>
    /\ UNCHANGED <<impl, graph, defined_resources, input,
                 literal_vars, label_vars, rest_vars>>

\* _parse_restriction returns to _create_class
parse_restriction_return ==
    /\ pc = "run" /\ Len(stack) > 1
    /\ Top.fn = "restr" /\ Top.ph = "ret"
    /\ Below.fn = "cls" /\ Below.ph = "await"
    /\ stack' = ReturnTo([Below EXCEPT !.ph = "loop", !.idx = @ + 1])
    /\ record' = [record EXCEPT !.restrictions = AppendIfTruthy(@, Top.val)]
    /\ UNCHANGED <<impl, graph, defined_resources, pc, input,
                 literal_vars, label_vars, rest_vars>>

-----------------------------------------------------------------------------
(* The graphs the walks are run on *)

Pair(p, o) == [p |-> p, o |-> o]

ListNodes == <<"l1", "l2", "l3", "l4", "l5", "l6">>
ListNode(i) == BN(ListNodes[i])
Subjects == {"K", "P", "b0", "b1"} \cup {ListNodes[i] : i \in 1..Len(ListNodes)}

\* the class whose record is built: a named superclass and an anonymous one
ClassPairs ==
    <<Pair("type", U("owl:Class")),
      Pair("subClassOf", U("S")),
      Pair("subClassOf", BN("b0"))>>

\* the RDF-list encoding of a member sequence: rdf:first / rdf:rest cells
\* ending in rdf:nil
EncodeList(members) ==
    [s \in Subjects |->
        IF \E i \in 1..Len(members) : s = ListNodes[i]
        THEN LET i == CHOOSE j \in 1..Len(members) : s = ListNodes[j]
             IN  <<Pair("first", members[i]),
                   Pair("rest", IF i < Len(members) THEN ListNode(i + 1) ELSE Nil)>>
        ELSE <<>>]

HeadOf(members) == IF members = <<>> THEN Nil ELSE ListNode(1)

\* sequences over S of length n without a repeated element, and up to n
RECURSIVE DistinctSeqs(_, _)
DistinctSeqs(S, n) ==
    IF n = 0 THEN {<<>>}
    ELSE UNION {{Append(q, x) : x \in S \ {q[i] : i \in 1..Len(q)}} :
                q \in DistinctSeqs(S, n - 1)}

DistinctSeqsUpTo(S, n) == UNION {DistinctSeqs(S, k) : k \in 0..n}

RECURSIVE SeqsOf(_, _)
SeqsOf(S, n) ==
    IF n = 0 THEN {<<>>}
    ELSE {Append(q, x) : q \in SeqsOf(S, n - 1), x \in S}

SeqsUpTo(S, n) == UNION {SeqsOf(S, k) : k \in 0..n}

\* the triples the decoded anonymous node b0 may carry
RootPool ==
    {Pair("onProperty", U("P")),
     Pair("someValuesFrom", U("A")),
     Pair("hasValue", Lit("x", "")),
     Pair("minCardinality", Lit("1", "")),
     Pair("minCardinality", Lit("0", "")),
     Pair("minQualifiedCardinality", Lit("1", "")),
     Pair("qualifiedCardinality", Lit("2", "")),
     Pair("onClass", U("C")),
     Pair("unionOf", ListNode(1)),
     Pair("intersectionOf", ListNode(1)),
     Pair("complementOf", U("A")),
     Pair("oneOf", ListNode(1))}

RestrictionType == <<Pair("type", U("owl:Restriction"))>>

\* an anonymous superclass carrying any few triples of the pool, in any
\* encounter order, over a well-formed two-member list
DispatchGraphs ==
    {[g |-> [EncodeList(<<U("A"), U("B")>>) EXCEPT
                !["K"] = ClassPairs, !["b0"] = t \o ps],
      encoded |-> FALSE, members |-> <<>>] :
        ps \in DistinctSeqsUpTo(RootPool, MaxPreds),
        t \in {<<>>, RestrictionType}}

\* the roots that lead each implementation to a list walk
ListRoots ==
    {<<Pair("unionOf", ListNode(1))>>,
     <<Pair("intersectionOf", ListNode(1))>>,
     <<Pair("oneOf", ListNode(1))>>,
     RestrictionType \o <<Pair("onProperty", U("P")),
                          Pair("someValuesFrom", BN("b1"))>>}

\* list cells of any shape: with or without rdf:first, with or without
\* rdf:rest, the rest pointing anywhere (so broken and cyclic chains)
CellShapes ==
    {f \o r : f \in {<<>>, <<Pair("first", U("A"))>>, <<Pair("first", BN("b1"))>>,
                     <<Pair("first", Lit("x", ""))>>},
              r \in {<<>>, <<Pair("rest", Nil)>>, <<Pair("rest", ListNode(1))>>,
                     <<Pair("rest", ListNode(2))>>}}

NestedShapes ==
    {<<>>, <<Pair("unionOf", ListNode(1))>>, <<Pair("unionOf", ListNode(2))>>,
     <<Pair("complementOf", U("B"))>>}

MalformedGraphs ==
    {[g |-> [EncodeList(<<>>) EXCEPT
                !["K"] = ClassPairs, !["b0"] = root, !["b1"] = nested,
                !["l1"] = c1, !["l2"] = c2],
      encoded |-> FALSE, members |-> <<>>] :
        root \in ListRoots, nested \in NestedShapes,
        c1 \in CellShapes, c2 \in CellShapes}

\* well-formed lists of named classes, built from their member sequence
MemberPool == {U("A"), U("B"), U("C")}

EncodedGraphs ==
    {[g |-> [EncodeList(ms) EXCEPT
                !["K"] = ClassPairs, !["b0"] = root,
                !["b1"] = <<Pair("unionOf", HeadOf(ms))>>],
      encoded |-> TRUE, members |-> ms] :
        root \in ListRoots, ms \in SeqsUpTo(MemberPool, MaxLen)}

\* a run of one component leaves the other components' state as constructed
Pending == [pending |-> TRUE]
Returned(v) == [pending |-> FALSE, value |-> v]
NoEntities == [classes |-> <<>>, properties |-> <<>>, individuals |-> <<>>]
WalkIdle ==
    /\ impl = "" /\ defined_resources = {} /\ stack = <<>>
    /\ record = NoneV /\ pc = "idle"
    /\ input = [encoded |-> FALSE, members |-> <<>>]
LiteralIdle == predicates = <<>> /\ resolved = Pending
LabelIdle ==
    /\ entity_uri = <<>> /\ namespace_prefix = Pending
    /\ entities = NoEntities /\ namespaces = <<>> /\ unique_labels = Pending

NameIdle == name_subject = NoneT /\ qname = Pending /\ resolved_name = Pending
ProcessIdle ==
    /\ options = Pending /\ environment = Pending /\ process_pc = "idle"
    /\ self_graph = "" /\ tmp_file = "" /\ warnings = <<>>
    /\ process_outcome = Pending
ExtractIdle ==
    /\ subject_order = <<>> /\ bindings = <<>> /\ extract_pc = "idle"
    /\ model = NoneV /\ models = <<>>
BlankIdle ==
    /\ bnode = NoneT
    /\ bnode_resolved = Pending
MetadataIdle ==
    /\ ontology_node = Pending
    /\ metadata = Pending
CommentIdle ==
    /\ comment_block = Pending
EntityLabelIdle ==
    /\ label_entity = NoneV
    /\ label_lang = ""
    /\ entity_label = Pending
FetchIdle ==
    /\ fetch_pc = "idle"
    /\ mime_index = 0
    /\ requests_sent = <<>>
    /\ fetch_errors = <<>>
    /\ fetch_outcome = Pending
ImportsIdle ==
    /\ import_pc = "idle"
    /\ import_options = NoneV
    /\ web = <<>>
    /\ graph_imports = {}
    /\ imports_to_process = {}
    /\ current_imports = {}
    /\ imported_ontologies = {}
    /\ depth = 0
    /\ rounds = 0
    /\ loads = <<>>
    /\ failed_loads = <<>>
    /\ imports_outcome = Pending
TargetIdle ==
    /\ target_label = Pending
\* the components of the later sections, all but `own`: as constructed, and
\* left alone
LateIdleBut(own) ==
    /\ (IF own = "blank" THEN TRUE ELSE BlankIdle)
    /\ (IF own = "meta" THEN TRUE ELSE MetadataIdle)
    /\ (IF own = "comment" THEN TRUE ELSE CommentIdle)
    /\ (IF own = "elabel" THEN TRUE ELSE EntityLabelIdle)
    /\ (IF own = "fetch" THEN TRUE ELSE FetchIdle)
    /\ (IF own = "imports" THEN TRUE ELSE ImportsIdle)
    /\ (IF own = "target" THEN TRUE ELSE TargetIdle)
LateUnchangedBut(own) ==
    /\ (IF own = "blank" THEN TRUE ELSE UNCHANGED blank_vars)
    /\ (IF own = "meta" THEN TRUE ELSE UNCHANGED meta_vars)
    /\ (IF own = "comment" THEN TRUE ELSE UNCHANGED comment_vars)
    /\ (IF own = "elabel" THEN TRUE ELSE UNCHANGED elabel_vars)
    /\ (IF own = "fetch" THEN TRUE ELSE UNCHANGED fetch_vars)
    /\ (IF own = "imports" THEN TRUE ELSE UNCHANGED imports_vars)
    /\ (IF own = "target" THEN TRUE ELSE UNCHANGED target_vars)
LateIdle == LateIdleBut("")
RestIdle == NameIdle /\ ProcessIdle /\ ExtractIdle /\ LateIdle

Init ==
    /\ impl \in {"processor", "parser"}
    /\ \E c \in DispatchGraphs \cup MalformedGraphs \cup EncodedGraphs :
          /\ graph = c.g
          /\ input = [encoded |-> c.encoded, members |-> c.members]
    /\ defined_resources \in
          IF impl = "parser" THEN {{"K"}, {"K", "P", "A"}} ELSE {{}}
    /\ stack = <<Frame("cls", U("K"))>>
    /\ record = NoneV
    /\ pc = "run"
    /\ LiteralIdle
    /\ LabelIdle
    /\ RestIdle

Next ==
    \/ get_classes
    \/ process_class_expression
    \/ process_list
    \/ process_list_return
    \/ process_class_expression_return
    \/ create_class
    \/ parse_restriction
    \/ get_elements_from_target
    \/ get_elements_from_target_return
    \/ parse_restriction_return

Spec == Init /\ [][Next]_vars

-----------------------------------------------------------------------------
(* Properties of the Expression Decoder *)

Root == BN("b0")

\* the predicates present on a node, whatever the order of its triples
PredicatesOf(node) == {graph[node.v][i].p : i \in 1..Len(graph[node.v])}

RestrictionPredicates ==
    {restriction_types[i][1] : i \in 1..Len(restriction_types)}

QualifiedPredicates ==
    {"minQualifiedCardinality", "maxQualifiedCardinality", "qualifiedCardinality"}

\* the decoded superclass expression of the finished class record, if any
Decoded == IF record.restrictions = <<>> THEN NoneV ELSE record.restrictions[1]

\* the number of list cells that have a successor
CellsWithRest ==
    Cardinality({s \in DOMAIN graph : SelectObjects(graph[s], "rest") # <<>>})

\* C1: a list walk terminates within a bounded number of steps even when
\* the rdf:rest chain loops back: no single walk of _process_list or of the
\* unionOf loop of _get_elements_from_target makes more iterations than an
\* acyclic chain over the cells of the graph can have.
C1_ListWalkBounded ==
    \A i \in 1..Len(stack) :
        stack[i].fn \in {"list", "target"} => stack[i].iters <= CellsWithRest + 1

\* a chain is broken when a cell reached before rdf:nil has no rdf:first or
\* no rdf:rest
RECURSIVE BrokenChain(_, _)
BrokenChain(cur, fuel) ==
    IF fuel = 0 \/ cur = Nil \/ cur.k # "bnode" THEN FALSE
    ELSE \/ Objects(cur, "first") = <<>>
         \/ Objects(cur, "rest") = <<>>
         \/ BrokenChain(Objects(cur, "rest")[1], fuel - 1)

MalformedExpression(node) ==
    \/ /\ "onProperty" \in PredicatesOf(node)
       /\ PredicatesOf(node) \cap RestrictionPredicates = {}
       /\ PredicatesOf(node) \cap {"unionOf", "intersectionOf", "complementOf", "oneOf"} = {}
    \/ /\ ListCase(node) # ""
       /\ BrokenChain(ListHead(node), Len(ListNodes))

\* C4: a malformed anonymous node (a restriction without a restriction
\* predicate, or a combinator whose list chain is broken) decodes to none, so
\* the class's restrictions hold no construct for it.
C4_MalformedDecodesToNone ==
    (pc = "done" /\ impl = "processor" /\ MalformedExpression(Root))
        => record.restrictions = <<>>

\* the case the fixed decoding order selects, from the set of predicates alone
ExpectedCase(preds) ==
    IF "onProperty" \in preds /\ preds \cap RestrictionPredicates # {}
    THEN "restriction"
    ELSE IF "unionOf" \in preds THEN "union"
    ELSE IF "intersectionOf" \in preds THEN "intersection"
    ELSE IF "complementOf" \in preds THEN "complement"
    ELSE IF "oneOf" \in preds THEN "enumeration"
    ELSE "none"

ApplicableCases(preds) ==
    (preds \cap {"unionOf", "intersectionOf", "complementOf", "oneOf"})
    \cup (IF "onProperty" \in preds /\ preds \cap RestrictionPredicates # {}
          THEN {"restriction"} ELSE {})

\* C5: the decoder returns the first applicable case in the fixed order
\* restriction, union, intersection, complement, enumeration, and none when
\* no case applies, whatever the encounter order of the node's triples.
C5_FirstMatchInFixedOrder ==
    (pc = "done" /\ impl = "processor")
        => Decoded.type = ExpectedCase(PredicatesOf(Root))

C5_Witness ==
    /\ pc = "done" /\ impl = "processor"
    /\ Cardinality(ApplicableCases(PredicatesOf(Root))) > 1
    /\ graph["b0"][1].p = "oneOf"
    /\ Decoded.type = "union"

\* a qualified-cardinality restriction node, well formed: it names the
\* property, the qualifying class and no other restriction predicate
QualifiedRestrictionNode(node) ==
    /\ {"onProperty", "onClass"} \subseteq PredicatesOf(node)
    /\ PredicatesOf(node) \cap RestrictionPredicates # {}
    /\ PredicatesOf(node) \cap RestrictionPredicates \subseteq QualifiedPredicates

ReportedKind(r) == IF impl = "processor" THEN r.restriction_type ELSE r.rtype

\* C6: a restriction decoded from a qualified-cardinality node is reported
\* as a qualified kind and carries the node's owl:onClass.
C6_QualifiedCarriesClass ==
    (pc = "done" /\ QualifiedRestrictionNode(Root) /\ Decoded # NoneV)
        => /\ HasQualified(ReportedKind(Decoded))
           /\ "on_class" \in DOMAIN Decoded
           /\ Decoded.on_class = Str(Value(Root, "onClass"))

\* the members a list of named classes decodes to
RECURSIVE MemberStrings(_)
MemberStrings(ms) ==
    IF ms = <<>> THEN <<>> ELSE <<StrItem(Str(Head(ms)))>> \o MemberStrings(Tail(ms))

\* C7: a well-formed list of named classes decodes to the sequence of its
\* rdf:first values in rdf:rest order: same length, no sorting, no
\* deduplication.
C7_ListOrderPreserved ==
    (pc = "done" /\ impl = "processor" /\ input.encoded /\ ListCase(Root) # "")
        => /\ Decoded.type = ListCase(Root)
           /\ Decoded.members = MemberStrings(input.members)

C7_Witness ==
    /\ pc = "done" /\ impl = "processor" /\ input.encoded
    /\ input.members = <<U("B"), U("A"), U("B")>>
    /\ Decoded.type = "union"
    /\ Decoded.members = <<StrItem("B"), StrItem("A"), StrItem("B")>>

\* the identifiers of the anonymous nodes
AnonymousIds == {"b0", "b1"} \cup {ListNodes[i] : i \in 1..Len(ListNodes)}

\* every Element of the finished parser class record
RECURSIVE RestrictionElements(_)
RestrictionElements(rs) ==
    IF rs = <<>> THEN <<>>
    ELSE <<Head(rs).on_property>> \o Head(rs).values \o RestrictionElements(Tail(rs))

RecordElements ==
    <<Element(record.uri, record.type_label, record.url)>>
    \o record.super_classes \o RestrictionElements(record.restrictions)

\* C10: every entity record and every referenced Element inside it,
\* restriction properties and restriction targets included, has url = "#" +
\* uri exactly when uri is a locally defined resource, and url = uri otherwise.
C10_UrlIsAnchorIffDefined ==
    (pc = "done" /\ impl = "parser")
        => \A i \in 1..Len(RecordElements) :
              RecordElements[i].uri \notin AnonymousIds =>
              RecordElements[i].url =
                 Some(IF RecordElements[i].uri \in defined_resources
                      THEN "#" \o RecordElements[i].uri
                      ELSE RecordElements[i].uri)

\* the URIs of the direct superclass list of the finished class record
SuperclassUris ==
    IF impl = "processor"
    THEN {record.superclasses[i] : i \in 1..Len(record.superclasses)}
    ELSE {record.super_classes[i].uri : i \in 1..Len(record.super_classes)}

\* the anonymous superclass is a decodable class expression: one of the five
\* cases applies to it and, for a list case, its list is well formed
DecodableExpression(node) ==
    /\ ExpectedCase(PredicatesOf(node)) # "none"
    /\ ~MalformedExpression(node)

\* C14: the direct superclass list of an extracted class holds named nodes
\* only, and an anonymous rdfs:subClassOf object that is a decodable class
\* expression appears in the class's restrictions instead of being dropped.
C14_AnonymousSuperclassRouted ==
    pc = "done" =>
        /\ SuperclassUris \cap AnonymousIds = {}
        /\ DecodableExpression(Root) => record.restrictions # <<>>

-----------------------------------------------------------------------------
(* OntologyParser: the Literal Resolver *)

RECURSIVE OnlyLiterals(_)
OnlyLiterals(objs) ==
    IF objs = <<>> THEN <<>>
    ELSE (IF Head(objs).k = "lit" THEN <<Head(objs)>> ELSE <<>>)
         \o OnlyLiterals(Tail(objs))

\* candidates: for p in predicates, for o in objects(subject, p), the Literals
RECURSIVE Candidates(_, _)
Candidates(subject, preds) ==
    IF preds = <<>> THEN <<>>
    ELSE OnlyLiterals(Objects(subject, Head(preds)))
         \o Candidates(subject, Tail(preds))

\* [c for c in candidates if c.language == 'en']
RECURSIVE EnMatches(_)
EnMatches(cands) ==
    IF cands = <<>> THEN <<>>
    ELSE (IF Head(cands).lang = "en" THEN <<Head(cands)>> ELSE <<>>)
         \o EnMatches(Tail(cands))

\* the mutation of the choice: the first candidate whatever its language
PreferredFirstEncountered(cands) == cands[1]

\* the preferred literal among non-empty candidates
Preferred(cands) ==
    IF EnMatches(cands) # <<>> THEN EnMatches(cands)[1] ELSE cands[1]

\* [c for c in candidates if c != preferred]
RECURSIVE Without(_, _)
Without(cands, preferred) ==
    IF cands = <<>> THEN <<>>
    ELSE (IF Head(cands) # preferred THEN <<Head(cands)>> ELSE <<>>)
         \o Without(Tail(cands), preferred)

\* others_literals
OthersLiterals(cands) ==
    IF EnMatches(cands) # <<>> THEN Without(cands, Preferred(cands))
    ELSE Tail(cands)

\* "value @lang" for a tagged literal, "value" for an untagged one
FormatOther(l) == IF l.lang # "" THEN Str(l) \o " @" \o l.lang ELSE Str(l)

RECURSIVE FormatOthers(_)
FormatOthers(ls) ==
    IF ls = <<>> THEN <<>> ELSE <<FormatOther(Head(ls))>> \o FormatOthers(Tail(ls))

\* _extract_preferred_and_others(subject, predicates)
ExtractPreferredAndOthers(subject, preds) ==
    LET cands == Candidates(subject, preds)
    IN  IF cands = <<>> THEN [preferred |-> None, others |-> <<>>]
        ELSE [preferred |-> Some(Str(Preferred(cands))),
              others |-> FormatOthers(OthersLiterals(cands))]

extract_preferred_and_others ==
    /\ resolved = Pending
    /\ predicates # <<>>
    /\ resolved' = ExtractPreferredAndOthers(U("K"), predicates)
    /\ UNCHANGED <<graph, predicates, walk_vars, label_vars, rest_vars>>

\* the objects a subject may carry under the annotation predicates
LiteralObjects ==
    {Lit("Person", "en"), Lit("Personne", "fr"), Lit("Persoon", ""),
     Lit("Human", "en"), U("X")}

AnnotationPairs ==
    {Pair(p, o) : p \in {"rdfs:label", "dc:title"}, o \in LiteralObjects}

InitLiteral ==
    /\ \E ps \in DistinctSeqsUpTo(AnnotationPairs, MaxCandidates) :
          graph = [s \in {"K"} |-> ps]
    /\ predicates \in {<<"rdfs:label">>, <<"dc:title", "rdfs:label">>,
                       <<"rdfs:label", "dc:title">>}
    /\ resolved = Pending
    /\ WalkIdle
    /\ LabelIdle
    /\ RestIdle

NextLiteral == extract_preferred_and_others

SpecLiteral == InitLiteral /\ [][NextLiteral]_vars

PreferredIndex(cands) ==
    IF \E j \in 1..Len(cands) : cands[j].lang = "en"
    THEN CHOOSE i \in 1..Len(cands) :
            /\ cands[i].lang = "en"
            /\ \A j \in 1..(i - 1) : cands[j].lang # "en"
    ELSE 1

\* C3: for n >= 1 candidates the alternates are exactly the n-1 candidates
\* other than the single preferred occurrence, in encounter order (a later
\* candidate equal to the preferred one included), each rendered "value" or
\* "value @lang".
C3_AlternatesAreTheRest ==
    resolved # Pending =>
        LET cands == Candidates(U("K"), predicates)
            k == PreferredIndex(cands)
        IN  cands # <<>> =>
               /\ Len(resolved.others) = Len(cands) - 1
               /\ \A i \in 1..(Len(cands) - 1) :
                     resolved.others[i] =
                        LET c == cands[IF i < k THEN i ELSE i + 1]
                        IN  IF c.lang = "" THEN c.v ELSE c.v \o " @" \o c.lang

-----------------------------------------------------------------------------
(* Python strings, as sequences of characters *)

HashChar == "#"
SlashChar == "/"
DotChar == "."
HttpScheme == <<"h", "t", "t", "p", ":", "/", "/">>
HttpsScheme == <<"h", "t", "t", "p", "s", ":", "/", "/">>
WwwDot == <<"w", "w", "w", ".">>
BaseName == <<"b", "a", "s", "e">>
Colon == <<":">>

\* c in s
HasChar(s, c) == \E i \in 1..Len(s) : s[i] = c

\* s.startswith(pat)
StartsWith(s, pat) == Len(pat) <= Len(s) /\ SubSeq(s, 1, Len(pat)) = pat

\* s.replace(pat, ''): every non-overlapping occurrence, left to right
RECURSIVE Remove(_, _)
Remove(s, pat) ==
    IF s = <<>> THEN <<>>
    ELSE IF StartsWith(s, pat) THEN Remove(SubSeq(s, Len(pat) + 1, Len(s)), pat)
    ELSE <<Head(s)>> \o Remove(Tail(s), pat)

\* s.split(c), with cur the segment being read
RECURSIVE SplitFrom(_, _, _)
SplitFrom(s, c, cur) ==
    IF s = <<>> THEN <<cur>>
    ELSE IF Head(s) = c THEN <<cur>> \o SplitFrom(Tail(s), c, <<>>)
    ELSE SplitFrom(Tail(s), c, Append(cur, Head(s)))

Split(s, c) == SplitFrom(s, c, <<>>)

\* s.rstrip(c)
RECURSIVE RStrip(_, _)
RStrip(s, c) ==
    IF s # <<>> /\ s[Len(s)] = c THEN RStrip(SubSeq(s, 1, Len(s) - 1), c) ELSE s

\* s[:n]
Prefix(s, n) == SubSeq(s, 1, IF Len(s) < n THEN Len(s) ELSE n)

\* s.lower(), over ASCII
UpperCase == <<"A", "B", "C", "D", "E", "F", "G", "H", "I", "J", "K", "L", "M", "N", "O", "P", "Q", "R", "S", "T", "U", "V", "W", "X", "Y", "Z">>
LowerCase == <<"a", "b", "c", "d", "e", "f", "g", "h", "i", "j", "k", "l", "m", "n", "o", "p", "q", "r", "s", "t", "u", "v", "w", "x", "y", "z">>
LowerChar(c) ==
    IF \E i \in 1..Len(UpperCase) : UpperCase[i] = c
    THEN LowerCase[CHOOSE i \in 1..Len(UpperCase) : UpperCase[i] = c]
    ELSE c

Lower(s) == [i \in 1..Len(s) |-> LowerChar(s[i])]

-----------------------------------------------------------------------------
(* HTMLGenerator: pseudo-prefix derivation *)

PrefixMaxLen == 8

\* the clean-up of the namespace text into a prefix
CleanNamespace(namespace) ==
    IF namespace = <<>> THEN None
    ELSE LET noScheme == Remove(Remove(namespace, HttpScheme), HttpsScheme)
             noWww == Remove(noScheme, WwwDot)
             parts == Split(noWww, DotChar)
         IN  IF Len(parts) > 1 THEN Some(Prefix(parts[1], PrefixMaxLen))
             ELSE Some(Prefix(noWww, PrefixMaxLen))

\* _extract_namespace_prefix(uri)
extract_namespace_prefix(uri) ==
    IF HasChar(uri, HashChar) THEN CleanNamespace(Split(uri, HashChar)[1])
    ELSE IF HasChar(uri, SlashChar)
    THEN LET parts == Split(RStrip(uri, SlashChar), SlashChar)
         IN  IF Len(parts) > 1 THEN CleanNamespace(parts[Len(parts) - 1])
             ELSE None
    ELSE None

ExtractNamespacePrefix ==
    /\ namespace_prefix = Pending
    /\ entity_uri # <<>>
    /\ namespace_prefix' = Returned(extract_namespace_prefix(entity_uri))
    /\ UNCHANGED <<graph, walk_vars, literal_vars, entity_uri, entities,
                   namespaces, unique_labels, rest_vars>>

\* the URIs the derivation is run on: scheme, host, path, local part
UriSchemes == {<<>>, HttpScheme, HttpsScheme}
UriHosts ==
    {<<"w", "w", "w", ".", "e", "x", "a", "m", "p", "l", "e", ".", "o", "r", "g">>,
     <<"m", "y", "w", "w", "w", ".", "e", "x", "a", "m", "p", "l", "e", ".", "o", "r", "g">>,
     <<"p", "u", "r", "l", ".", "o", "r", "g">>,
     <<"o", "n", "t", "o", "l", "o", "g", "i", "e", "s", ".", "e", "x", "a", "m", "p", "l", "e", ".", "c", "o", "m">>,
     <<"l", "o", "c", "a", "l", "h", "o", "s", "t">>}
UriPaths == {<<>>, <<"/", "o", "n", "t", "o">>, <<"/", "a", ".", "b", "/", "o", "n", "t", "o">>}
UriLocals ==
    {<<>>, <<"#", "N", "a", "m", "e">>, <<"/", "N", "a", "m", "e">>, <<"/">>,
     <<"#", "v", "1", ".", "0", "#", "N", "a", "m", "e">>}

UriPool ==
    {sc \o h \o pa \o lo :
        sc \in UriSchemes, h \in UriHosts, pa \in UriPaths, lo \in UriLocals}

InitPrefix ==
    /\ entity_uri \in UriPool
    /\ namespace_prefix = Pending
    /\ entities = NoEntities /\ namespaces = <<>> /\ unique_labels = Pending
    /\ graph = [s \in {} |-> <<>>]
    /\ WalkIdle
    /\ LiteralIdle
    /\ RestIdle

NextPrefix == ExtractNamespacePrefix

SpecPrefix == InitPrefix /\ [][NextPrefix]_vars

\* the last index of character c in s (0 when absent)
LastIndexOf(s, c) ==
    IF HasChar(s, c) THEN CHOOSE i \in 1..Len(s) :
                            s[i] = c /\ \A j \in (i + 1)..Len(s) : s[j] # c
    ELSE 0

\* s without a leading pat
StripLeading(s, pat) ==
    IF StartsWith(s, pat) THEN SubSeq(s, Len(pat) + 1, Len(s)) ELSE s

\* the pseudo-prefix as the derivation rule states it
StatedPrefix(u) ==
    LET text == IF HasChar(u, HashChar)
                THEN SubSeq(u, 1, LastIndexOf(u, HashChar) - 1)
                ELSE Split(u, SlashChar)[Len(Split(u, SlashChar)) - 1]
        normal == StripLeading(StripLeading(StripLeading(text, HttpScheme),
                                            HttpsScheme), WwwDot)
    IN  Prefix(Split(normal, DotChar)[1], PrefixMaxLen)

\* C9: the pseudo-prefix is the text before the last "#" (or the
\* second-to-last "/"-delimited segment when there is no "#"), with only a
\* leading scheme and a leading "www." stripped, cut at the first "." and
\* truncated to 8 characters; it is never longer than 8 characters.  Stated
\* for URIs with a "#", and for URIs without one that do not end in "/" and
\* for which a prefix is derived.
C9_PseudoPrefixDerivation ==
    (/\ ~namespace_prefix.pending
     /\ \/ HasChar(entity_uri, HashChar)
        \/ /\ Len(Split(entity_uri, SlashChar)) > 1
           /\ entity_uri[Len(entity_uri)] # SlashChar
           /\ namespace_prefix.value # None)
        => /\ namespace_prefix.value = Some(StatedPrefix(entity_uri))
           /\ Len(namespace_prefix.value[1]) <= PrefixMaxLen

-----------------------------------------------------------------------------
(* HTMLGenerator: the Uniqueness Resolver *)

\* _uri_to_label(uri)
uri_to_label(uri) ==
    IF HasChar(uri, HashChar)
    THEN Split(uri, HashChar)[Len(Split(uri, HashChar))]
    ELSE IF HasChar(uri, SlashChar)
    THEN Split(uri, SlashChar)[Len(Split(uri, SlashChar))]
    ELSE uri

\* labels[lang] of a labels dict kept as a sequence of [lang, values]
\* entries in insertion order; <<>> when the language is absent
LabelsIn(labels, lang) ==
    IF \E i \in 1..Len(labels) : labels[i].lang = lang
    THEN labels[CHOOSE i \in 1..Len(labels) : labels[i].lang = lang].values
    ELSE <<>>

\* the mutation of the fallback chain: no English step
get_entity_label_without_en(entity_data, lang) ==
    LET labels == entity_data.labels
        filled == {i \in 1..Len(labels) : labels[i].values # <<>>}
    IN  IF LabelsIn(labels, lang) # <<>> THEN LabelsIn(labels, lang)[1]
        ELSE IF filled # {}
        THEN labels[CHOOSE i \in filled : \A j \in filled : i <= j].values[1]
        ELSE uri_to_label(entity_data.uri)

\* _get_entity_label(entity_data, lang)
get_entity_label(entity_data, lang) ==
    LET labels == entity_data.labels
        filled == {i \in 1..Len(labels) : labels[i].values # <<>>}
    IN  IF LabelsIn(labels, lang) # <<>> THEN LabelsIn(labels, lang)[1]
        ELSE IF LabelsIn(labels, "en") # <<>> THEN LabelsIn(labels, "en")[1]
        ELSE IF filled # {}
        THEN labels[CHOOSE i \in filled : \A j \in filled : i <= j].values[1]
        ELSE uri_to_label(entity_data.uri)

\* the mutation of the prefix lookup: the last matching entry instead of the
\* first
get_prefix_for_uri_last(uri, table) ==
    LET hits == {i \in 1..Len(table) : StartsWith(uri, table[i].namespace)}
    IN  IF hits = {} THEN None
        ELSE Some(table[CHOOSE i \in hits : \A j \in hits : j <= i].prefix)

\* _get_prefix_for_uri(uri, namespaces)
get_prefix_for_uri(uri, table) ==
    LET hits == {i \in 1..Len(table) : StartsWith(uri, table[i].namespace)}
    IN  IF hits = {} THEN None
        ELSE Some(table[CHOOSE i \in hits : \A j \in hits : i <= j].prefix)

\* dict.update: an entry whose key is present is replaced in place, a new
\* one is appended
RECURSIVE Update(_, _)
Update(d, e) ==
    IF e = <<>> THEN d
    ELSE LET x == Head(e)
             at == {i \in 1..Len(d) : d[i].uri = x.uri}
         IN  Update(IF at = {} THEN Append(d, x)
                    ELSE [d EXCEPT ![CHOOSE i \in at : TRUE] = x],
                    Tail(e))

all_entities(classes, properties, individuals) ==
    Update(Update(Update(<<>>, classes), properties), individuals)

\* name_groups[display_name]
NameGroup(all, display_name) ==
    LET InGroup(e) == Lower(get_entity_label(e, "en")) = display_name
    IN  SelectSeq(all, InGroup)

\* the label one entity of a group gets
UniqueLabel(entity_data, group, table) ==
    LET uri == entity_data.uri
        prefix == get_prefix_for_uri(uri, table)
        original_label == get_entity_label(entity_data, "en")
        namespace_prefix_ == extract_namespace_prefix(uri)
    IN  IF Len(group) > 1
        THEN IF prefix # None /\ prefix[1] # <<>> /\ prefix[1] # BaseName
             THEN prefix[1] \o Colon \o original_label
             ELSE IF namespace_prefix_ # None /\ namespace_prefix_[1] # <<>>
             THEN namespace_prefix_[1] \o Colon \o original_label
             ELSE original_label
        ELSE original_label

\* _generate_unique_labels(classes, properties, individuals, namespaces)
generate_unique_labels(classes, properties, individuals, table) ==
    LET all == all_entities(classes, properties, individuals)
        At(u) == all[CHOOSE i \in 1..Len(all) : all[i].uri = u]
    IN  [u \in {all[i].uri : i \in 1..Len(all)} |->
            UniqueLabel(At(u),
                        NameGroup(all, Lower(get_entity_label(At(u), "en"))),
                        table)]

\* the mutation of `all_entities = {}`: all_entities is the classes dict of
\* the caller
AllEntitiesIsClasses == "classes"

\* all_entities = {}: the dict the three update calls write to is a new one,
\* none of the arguments
AllEntitiesDict == "all_entities"

\* the dict `name` of the caller after the call: the method writes to
\* all_entities, name_groups and unique_labels only, and to no entity record
AfterCall(name) ==
    IF AllEntitiesDict = name
    THEN all_entities(entities.classes, entities.properties, entities.individuals)
    ELSE entities[name]

GenerateUniqueLabels ==
    /\ unique_labels = Pending
    /\ unique_labels' = Returned(generate_unique_labels(
                            entities.classes, entities.properties,
                            entities.individuals, namespaces))
    /\ entities' = [name \in DOMAIN entities |-> AfterCall(name)]
    /\ UNCHANGED <<graph, walk_vars, literal_vars, entity_uri, namespace_prefix,
                   namespaces, rest_vars>>

\* the entities and prefix tables the resolver is run on
OntoNamespace == <<"h", "t", "t", "p", ":", "/", "/", "o", "n", "t", "o", ".", "o", "r", "g", "/", "a", "#">>
OtherNamespace == <<"h", "t", "t", "p", ":", "/", "/", "w", "w", "w", ".", "o", "t", "h", "e", "r", ".", "o", "r", "g", "/", "b", "#">>
SiteNamespace == <<"h", "t", "t", "p", ":", "/", "/", "o", "n", "t", "o", ".", "o", "r", "g", "/">>
Entity(uri, labels) == [uri |-> uri, labels |-> labels]
LangLabels(lang, values) == [lang |-> lang, values |-> values]
ClassPool ==
    <<Entity(OntoNamespace \o <<"N", "a", "m", "e">>, <<>>),
      Entity(OtherNamespace \o <<"n", "a", "m", "e">>, <<>>),
      Entity(OntoNamespace \o <<"T", "h", "i", "n", "g">>,
             <<LangLabels("fr", <<<<"C", "h", "o", "s", "e">>>>),
               LangLabels("en", <<<<"T", "h", "i", "n", "g">>, <<"N", "a", "m", "e">>>>)>>)>>
PropertyPool ==
    <<Entity(OntoNamespace \o <<"h", "a", "s", "N", "a", "m", "e">>, <<LangLabels("en", <<<<"N", "A", "M", "E">>>>)>>),
      Entity(OntoNamespace \o <<"n", "a", "m", "e">>, <<LangLabels("en", <<<<"N", "a", "m", "e">>>>)>>)>>
IndividualPool ==
    <<Entity(<<"u", "r", "n", ":", "x", ":", "N", "a", "m", "e">>,
             <<LangLabels("en", <<<<"N", "a", "m", "e">>>>)>>),
      Entity(OntoNamespace \o <<"N", "a", "m", "e">>, <<LangLabels("fr", <<<<"N", "o", "m">>>>)>>)>>
Namespace(prefix, namespace) == [prefix |-> prefix, namespace |-> namespace]
NamespacePool ==
    {Namespace(<<"e", "x">>, OntoNamespace),
     Namespace(<<>>, OntoNamespace),
     Namespace(<<"s", "i", "t", "e">>, SiteNamespace),
     Namespace(BaseName, OtherNamespace),
     Namespace(<<"o">>, OtherNamespace)}

\* the entries of pool at the indices of I, in pool order
Pick(pool, I) ==
    LET InI(e) == \E i \in I : pool[i] = e
    IN  SelectSeq(pool, InI)

InitUnique ==
    /\ \E c \in SUBSET (1..Len(ClassPool)), p \in SUBSET (1..Len(PropertyPool)),
          i \in SUBSET (1..Len(IndividualPool)) :
          /\ Cardinality(c) + Cardinality(p) + Cardinality(i) <= MaxEntities
          /\ entities = [classes |-> Pick(ClassPool, c),
                         properties |-> Pick(PropertyPool, p),
                         individuals |-> Pick(IndividualPool, i)]
    /\ namespaces \in DistinctSeqsUpTo(NamespacePool, MaxNamespaces)
    /\ unique_labels = Pending
    /\ entity_uri = <<>> /\ namespace_prefix = Pending
    /\ graph = [s \in {} |-> <<>>]
    /\ WalkIdle
    /\ LiteralIdle
    /\ RestIdle

NextUnique == GenerateUniqueLabels

SpecUnique == InitUnique /\ [][NextUnique]_vars

\* the merged entities of the run, and the size of an entity's name group
Merged ==
    all_entities(entities.classes, entities.properties, entities.individuals)
DisplayName(e) == get_entity_label(e, "en")
GroupSize(e) ==
    Cardinality({i \in 1..Len(Merged) :
                    Lower(DisplayName(Merged[i])) = Lower(DisplayName(e))})
Registered(e) ==
    {i \in 1..Len(namespaces) : StartsWith(e.uri, namespaces[i].namespace)}
FirstRegistered(e) ==
    namespaces[CHOOSE i \in Registered(e) : \A j \in Registered(e) : i <= j].prefix
Usable(prefix) == prefix # <<>> /\ prefix # BaseName

\* C8 as stated: alone in its group an entity keeps its bare display name;
\* in a group of two or more, a member in a registered namespace is labelled
\* prefix:name with a registered prefix, and a member in no registered
\* namespace is labelled pseudoPrefix:name.
C8_AsStated ==
    ~unique_labels.pending =>
        \A k \in 1..Len(Merged) :
            LET e == Merged[k]
                label == unique_labels.value[e.uri]
            IN  /\ GroupSize(e) = 1 => label = DisplayName(e)
                /\ (GroupSize(e) >= 2 /\ Registered(e) # {}) =>
                      \E i \in Registered(e) :
                          label = namespaces[i].prefix \o Colon \o DisplayName(e)
                /\ (GroupSize(e) >= 2 /\ Registered(e) = {}) =>
                      /\ extract_namespace_prefix(e.uri) # None
                      /\ label = extract_namespace_prefix(e.uri)[1] \o Colon
                                    \o DisplayName(e)

\* C8: alone in its group an entity keeps its bare display name; in a group
\* of two or more, a member is labelled prefix:name with the first prefix of
\* the table whose namespace its URI starts with, when that prefix is neither
\* empty nor "base"; otherwise it is labelled pseudoPrefix:name when a
\* non-empty pseudo-prefix is derived from its URI, and keeps the bare name
\* when none is.
C8_UniqueLabels ==
    ~unique_labels.pending =>
        \A k \in 1..Len(Merged) :
            LET e == Merged[k]
                label == unique_labels.value[e.uri]
                pseudo == extract_namespace_prefix(e.uri)
                byTable == Registered(e) # {} /\ Usable(FirstRegistered(e))
            IN  /\ GroupSize(e) = 1 => label = DisplayName(e)
                /\ (GroupSize(e) >= 2 /\ byTable) =>
                      label = FirstRegistered(e) \o Colon \o DisplayName(e)
                /\ (GroupSize(e) >= 2 /\ ~byTable /\ pseudo \notin {None, Some(<<>>)}) =>
                      label = pseudo[1] \o Colon \o DisplayName(e)
                /\ (GroupSize(e) >= 2 /\ ~byTable /\ pseudo \in {None, Some(<<>>)}) =>
                      label = DisplayName(e)

\* a run with a colliding pair, one member labelled from the table, where
\* two entries match its URI, and one by its pseudo-prefix, beside an entity
\* alone in its group
C8_Witness ==
    /\ ~unique_labels.pending
    /\ \E a, b, c \in 1..Len(Merged) :
          /\ GroupSize(Merged[a]) >= 2
          /\ Cardinality(Registered(Merged[a])) = 2
          /\ Usable(FirstRegistered(Merged[a]))
          /\ unique_labels.value[Merged[a].uri] =
                FirstRegistered(Merged[a]) \o Colon \o DisplayName(Merged[a])
          /\ Lower(DisplayName(Merged[b])) = Lower(DisplayName(Merged[a]))
          /\ Registered(Merged[b]) = {}
          /\ unique_labels.value[Merged[b].uri] =
                extract_namespace_prefix(Merged[b].uri)[1] \o Colon
                    \o DisplayName(Merged[b])
          /\ GroupSize(Merged[c]) = 1
          /\ unique_labels.value[Merged[c].uri] = DisplayName(Merged[c])

-----------------------------------------------------------------------------
(* OntologyParser: the Name Resolver *)

\* _get_literal(subject, predicates)
get_literal(subject, preds) == ExtractPreferredAndOthers(subject, preds).preferred

\* the non-empty strings of at most n digits
Digits == {"0", "1", "2", "3", "4", "5", "6", "7", "8", "9"}
RECURSIVE DigitStrings(_)
DigitStrings(n) ==
    IF n = 0 THEN {}
    ELSE Digits \cup {ds \o d : ds \in DigitStrings(n - 1), d \in Digits}

\* the strings that match ^ns\d+$, up to MaxDigits digits
GeneratedPrefixes == {"ns" \o ds : ds \in DigitStrings(MaxDigits)}

\* the mutation of the placeholder test: "ns" alone is taken for generated
is_auto_generated_or_ns(prefix) == prefix = "ns" \/ prefix \in GeneratedPrefixes

\* _is_auto_generated(prefix): re.match(r"^ns\d+$", prefix)
is_auto_generated(prefix) == prefix \in GeneratedPrefixes

\* a call that raised, a call that returned v
Raised == [raised |-> TRUE]
Return(v) == [raised |-> FALSE, value |-> v]

\* the outcome of graph.compute_qname(subject): it raises, or it returns
\* (prefix, namespace, name)
QName(prefix, name) == [raised |-> FALSE, prefix |-> prefix, name |-> name]

\* the body of the try block of _get_label_or_qname
TryQName(subject, q) ==
    IF q.raised THEN Raised
    ELSE IF q.prefix # ""
    THEN IF is_auto_generated(q.prefix) THEN Return(Str(subject))
         ELSE Return(q.prefix \o ":" \o q.name)
    ELSE Return(IF q.name # "" THEN ":" \o q.name ELSE Str(subject))

\* the mutation of the except clause: the exception is let through
Reraise(outcome, subject) == outcome

\* except Exception: return str(subject)
ExceptFallback(outcome, subject) ==
    IF outcome.raised THEN Return(Str(subject)) ELSE outcome

\* _get_label_or_qname(subject)
get_label_or_qname(subject, q) ==
    LET label == get_literal(subject, <<"rdfs:label">>)
    IN  IF label # None /\ label[1] # "" THEN Return(label[1])
        ELSE ExceptFallback(TryQName(subject, q), subject)

GetLabelOrQName ==
    /\ resolved_name = Pending
    /\ name_subject # NoneT
    /\ resolved_name' = get_label_or_qname(name_subject, qname)
    /\ UNCHANGED <<graph, walk_vars, literal_vars, label_vars, name_subject, qname,
                   process_vars, extract_vars, late_vars>>

\* the nodes, labels and prefixed-name outcomes the resolver is run on: a
\* named node splits into its namespace and a local name, a node that is
\* itself a bound namespace has an empty local name under a non-empty prefix,
\* and the computation raises for the nodes it cannot split
PersonNode == U("http://ex.org/Person")
NamespaceNode == U("http://ex.org/")
NameSubjects == {PersonNode, NamespaceNode, BN("n1"), Lit("Person", "en")}
LabelObjects ==
    {Lit("Person", "en"), Lit("Personne", "fr"), Lit("", "en"), U("http://ex.org/X")}
QNamePrefixes == {"ex", "", "ns3", "ns12", "ns", "nsx", "ns3a", "Ns3"}
QNameOutcomes(subject) ==
    {Raised}
    \cup (IF subject = PersonNode
          THEN {QName(p, "Person") : p \in QNamePrefixes} ELSE {})
    \cup (IF subject = NamespaceNode
          THEN {QName(p, "") : p \in QNamePrefixes \ {""}} ELSE {})

InitName ==
    /\ name_subject \in NameSubjects
    /\ \E ls \in DistinctSeqsUpTo({Pair("rdfs:label", o) : o \in LabelObjects},
                                  MaxLabels) :
          graph = [s \in {name_subject.v} |-> ls]
    /\ qname \in QNameOutcomes(name_subject)
    /\ resolved_name = Pending
    /\ WalkIdle
    /\ LiteralIdle
    /\ LabelIdle
    /\ ProcessIdle
    /\ ExtractIdle
    /\ LateIdle

NextName == GetLabelOrQName

SpecName == InitName /\ [][NextName]_vars

\* the label the Literal Resolver resolves for the node, if any
ResolvedLabel == get_literal(name_subject, <<"rdfs:label">>)
Placeholder(prefix) ==
    \E ds \in DigitStrings(MaxDigits) : prefix = "ns" \o ds
RealPrefix(q) == ~q.raised /\ q.prefix # "" /\ ~Placeholder(q.prefix)

C12_NeverRaises ==
    resolved_name # Pending =>
        /\ ~resolved_name.raised
        /\ resolved_name.value \in
              {Str(name_subject)}
              \cup {Str(o) : o \in LabelObjects}
              \cup {p \o ":" \o n : p \in QNamePrefixes, n \in {"Person", ""}}

\* a literal node for which the prefixed-name computation raised, resolved
\* to its own string
C12_Witness ==
    /\ name_subject = Lit("Person", "en")
    /\ qname = Raised
    /\ resolved_name = Return("Person")

-----------------------------------------------------------------------------
(* OntologyProcessor.process: parsing, imports, reasoning *)

\* the formats the fallback of process() tries, in order
FallbackFormats == <<"xml", "turtle", "n3", "nt">>

\* the steps of _apply_reasoning that call a collaborator, in order
ReasoningSteps == <<"serialize", "load", "sync_reasoner", "save", "parse_reasoned">>

ProcessUnchanged ==
    UNCHANGED <<graph, walk_vars, literal_vars, label_vars, name_vars, extract_vars,
                late_vars>>

\* self.graph.parse with the detected format, then the fallback formats
process_parse ==
    /\ process_pc = "parse"
    /\ LET hits == {i \in 1..Len(FallbackFormats) :
                      FallbackFormats[i] \in environment.parsable}
       IN  IF environment.detected \in environment.parsable \/ hits # {}
           THEN /\ self_graph' = "parsed"
                /\ process_pc' = "imports"
                /\ UNCHANGED process_outcome
           ELSE /\ process_outcome' = Raised
                /\ process_pc' = "done"
                /\ UNCHANGED self_graph
    /\ UNCHANGED <<options, environment, tmp_file, warnings>>
    /\ ProcessUnchanged

\* if options.include_imports or options.include_closure: _process_imports;
\* an import that cannot be loaded is warned about and skipped
process_imports ==
    /\ process_pc = "imports"
    /\ IF options.include_imports
       THEN IF environment.import_loads
            THEN self_graph' = "parsed+imports" /\ UNCHANGED warnings
            ELSE /\ warnings' = Append(warnings, "Could not load import")
                 /\ UNCHANGED self_graph
       ELSE UNCHANGED <<self_graph, warnings>>
    /\ process_pc' = IF options.use_reasoning THEN ReasoningSteps[1] ELSE "return"
    /\ UNCHANGED <<options, environment, tmp_file, process_outcome>>
    /\ ProcessUnchanged

\* except Exception as e: print the warning and continue with the original
\* graph
ReasoningFailed(step) ==
    /\ warnings' = Append(warnings, "Reasoning failed")
    /\ process_pc' = "return"
    /\ UNCHANGED process_outcome

\* one collaborator call of _apply_reasoning: the serialization to the
\* temporary file, then owlready2's load, sync_reasoner and save, then the
\* parse of the reasoned file, which replaces self.graph; the finally clause
\* unlinks the file once tmp_path is known
apply_reasoning ==
    /\ \E i \in 1..Len(ReasoningSteps) :
          /\ process_pc = ReasoningSteps[i]
          /\ IF environment.fails = ReasoningSteps[i]
             THEN /\ ReasoningFailed(ReasoningSteps[i])
                  /\ tmp_file' = IF i = 1 THEN "left" ELSE "unlinked"
                  /\ UNCHANGED self_graph
             ELSE /\ IF i < Len(ReasoningSteps)
                     THEN /\ process_pc' = ReasoningSteps[i + 1]
                          /\ tmp_file' = "written"
                          /\ UNCHANGED self_graph
                     ELSE /\ process_pc' = "return"
                          /\ tmp_file' = "unlinked"
                          /\ self_graph' = "reasoned"
                  /\ UNCHANGED <<warnings, process_outcome>>
    /\ UNCHANGED <<options, environment>>
    /\ ProcessUnchanged

\* return self.graph
process_return ==
    /\ process_pc = "return"
    /\ process_outcome' = Return(self_graph)
    /\ process_pc' = "done"
    /\ UNCHANGED <<options, environment, self_graph, tmp_file, warnings>>
    /\ ProcessUnchanged

\* the options, and what the collaborators do with the content
InitProcess ==
    /\ options \in [use_reasoning : BOOLEAN, include_imports : BOOLEAN]
    /\ environment \in
          [detected : {"xml", "turtle", "json-ld"},
           parsable : SUBSET {"xml", "turtle", "n3", "nt", "json-ld"},
           import_loads : BOOLEAN,
           fails : {"none"} \cup {ReasoningSteps[i] : i \in 1..Len(ReasoningSteps)}]
    /\ process_pc = "parse"
    /\ self_graph = "" /\ tmp_file = "" /\ warnings = <<>>
    /\ process_outcome = Pending
    /\ graph = [s \in {} |-> <<>>]
    /\ WalkIdle
    /\ LiteralIdle
    /\ LabelIdle
    /\ NameIdle
    /\ ExtractIdle
    /\ LateIdle

NextProcess ==
    \/ process_parse
    \/ process_imports
    \/ apply_reasoning
    \/ process_return

SpecProcess == InitProcess /\ [][NextProcess]_vars

\* C13: when reasoning is requested and the reasoner fails, process() ends
\* with an error raised to its caller, not with a graph returned.
C13_ReasonerFailureIsFatal ==
    (/\ process_pc = "done"
     /\ self_graph # ""
     /\ options.use_reasoning
     /\ environment.fails # "none")
        => process_outcome = Raised

-----------------------------------------------------------------------------
(* Extraction: the top-level collections of both implementations *)

\* list(self.graph.subjects(p, o)): the subjects that carry the triple, in
\* the store's encounter order
SubjectsOf(p, o) ==
    LET Carries(s) == Contains(s, p, o)
    IN  SelectSeq(subject_order, Carries)

\* list(self.graph.predicate_objects(s))
PredicateObjects(s) == IF s.v \in DOMAIN graph THEN graph[s.v] ELSE <<>>

\* the namespace and the local name the graph splits a URI into; a URI
\* outside the table cannot be split
UriParts ==
    [u \in {"http://ex.org/A", "ex:knows", "http://other.org/B"} |->
        IF u = "http://ex.org/A"
        THEN [namespace |-> "http://ex.org/", name |-> "A"]
        ELSE IF u = "ex:knows"
        THEN [namespace |-> "http://ex.org/", name |-> "knows"]
        ELSE [namespace |-> "http://other.org/", name |-> "B"]]

\* the prefixes the graph generates for a namespace that has none, in the
\* order it tries them
NsPrefixes ==
    <<
      "ns1", "ns2", "ns3", "ns4", "ns5", "ns6", "ns7", "ns8", "ns9", "ns10",
      "ns11", "ns12", "ns13", "ns14", "ns15", "ns16", "ns17", "ns18", "ns19",
      "ns20"
    >>

\* the mutation of the prefix lookup: a bound namespace is not found
StorePrefixMissing(b, namespace) == {}

\* store.prefix(namespace): the entries of the prefix table b for namespace
StorePrefix(b, namespace) == {i \in 1..Len(b) : b[i].namespace = namespace}

\* self.graph.compute_qname(node) against the prefix table b: the outcome and
\* the table afterwards.  A namespace without a prefix gets the first free
\* generated one, and the graph binds it.
compute_qname(node, b) ==
    IF node.k # "uri" \/ node.v \notin DOMAIN UriParts
    THEN [q |-> Raised, b |-> b]
    ELSE LET parts == UriParts[node.v]
             hits == StorePrefix(b, parts.namespace)
             used == {b[i].prefix : i \in 1..Len(b)}
             free == {n \in 1..Len(NsPrefixes) : NsPrefixes[n] \notin used}
             generated == NsPrefixes[CHOOSE n \in free : \A m \in free : n <= m]
         IN  IF hits # {}
             THEN [q |-> QName(b[CHOOSE i \in hits : \A j \in hits : i <= j].prefix,
                               parts.name),
                   b |-> b]
             ELSE [q |-> QName(generated, parts.name),
                   b |-> Append(b, Namespace(generated, parts.namespace))]

\* label=self._get_label_or_qname(s) against the prefix table b: the label
\* and the table afterwards; compute_qname is called only without a label
LabelOf(s, b) ==
    LET label == get_literal(s, <<"rdfs:label">>)
        c == compute_qname(s, b)
    IN  IF label # None /\ label[1] # ""
        THEN [value |-> get_label_or_qname(s, Raised).value, b |-> b]
        ELSE [value |-> get_label_or_qname(s, c.q).value, b |-> c.b]

\* Python's order of the strings the model sorts by
KeyOrder ==
    <<
      "", "Zed", "ex", "ex:A", "http://ex.org/A", "http://other.org/B", "ns1",
      "ns10", "ns11", "ns12", "ns13", "ns14", "ns15", "ns16", "ns17", "ns18",
      "ns19", "ns2", "ns20", "ns3", "ns4", "ns5", "ns6", "ns7", "ns8", "ns9"
    >>
KeyRank(k) == CHOOSE i \in 1..Len(KeyOrder) : KeyOrder[i] = k

\* key=lambda x: x.label or x.uri
LabelOrUri(x) == IF x.label # "" THEN x.label ELSE x.uri

\* sorted(seq, key=...): ranks[i] is the rank of the key of seq[i]; the sort
\* is stable
Sorted(seq, ranks) ==
    LET n == Len(seq)
        Pos(i) == 1 + Cardinality({j \in 1..n :
                         \/ ranks[j] < ranks[i]
                         \/ ranks[j] = ranks[i] /\ j < i})
    IN  [k \in 1..n |-> seq[CHOOSE i \in 1..n : Pos(i) = k]]

\* sorted(records, key=lambda x: x.label or x.uri)
SortedByLabel(records) ==
    Sorted(records, [i \in 1..Len(records) |-> KeyRank(LabelOrUri(records[i]))])

\* OntologyParser.__init__: the defining types and defined_resources
DefiningTypes ==
    {U("owl:Class"), U("rdfs:Class"), U("owl:ObjectProperty"),
     U("owl:DatatypeProperty"), U("owl:AnnotationProperty"),
     U("owl:NamedIndividual"), U("rdfs:Datatype")}
DefinedResources ==
    {Str(subject_order[i]) : i \in {j \in 1..Len(subject_order) :
        /\ subject_order[j].k = "uri"
        /\ \E t \in DefiningTypes : Contains(subject_order[j], "type", t)}}

\* the members loop of _create_class
ClassMembers(node) ==
    LET NotAClass(s) == ~Contains(s, "type", U("owl:Class"))
    IN  NamedElements(SelectSeq(SubjectsOf("type", node), NotAClass), "ni")

\* the loop of OntologyParser.get_classes over the subjects ss, against the
\* prefix table b
RECURSIVE ParserClasses(_, _)
ParserClasses(ss, b) ==
    IF ss = <<>> THEN [out |-> <<>>, b |-> b]
    ELSE IF Head(ss).k = "bnode" THEN ParserClasses(Tail(ss), b)
    ELSE LET l == LabelOf(Head(ss), b)
             rest == ParserClasses(Tail(ss), l.b)
         IN  [out |-> <<[uri |-> Str(Head(ss)), label |-> l.value,
                         type_label |-> "c",
                         members |-> ClassMembers(Head(ss))]>> \o rest.out,
              b |-> rest.b]

\* the mutation of the URIRef test: every subject is taken
IsAnyNode(node) == TRUE

\* isinstance(node, URIRef)
IsURIRef(node) == node.k = "uri"

\* the loop of OntologyProcessor.get_classes and get_individuals over the
\* subjects ss: the dict, in insertion order
RECURSIVE ProcessorEntities(_)
ProcessorEntities(ss) ==
    IF ss = <<>> THEN <<>>
    ELSE (IF IsURIRef(Head(ss)) THEN <<[uri |-> Str(Head(ss))]>> ELSE <<>>)
         \o ProcessorEntities(Tail(ss))

\* the loop of a get_*_properties method of OntologyParser over the subjects
\* ss, with _create_property, against the prefix table b
RECURSIVE ParserProperties(_, _, _)
ParserProperties(ss, short_type, b) ==
    IF ss = <<>> THEN [out |-> <<>>, b |-> b]
    ELSE IF Head(ss).k = "bnode" THEN ParserProperties(Tail(ss), short_type, b)
    ELSE LET l == LabelOf(Head(ss), b)
             rest == ParserProperties(Tail(ss), short_type, l.b)
         IN  [out |-> <<[uri |-> Str(Head(ss)), label |-> l.value,
                         type_label |-> short_type]>> \o rest.out,
              b |-> rest.b]

\* the seven characteristic probes of _extract_property_info, in its order
CharacteristicProbes ==
    <<[type |-> U("owl:FunctionalProperty"), name |-> "functional"],
      [type |-> U("owl:InverseFunctionalProperty"), name |-> "inverse_functional"],
      [type |-> U("owl:TransitiveProperty"), name |-> "transitive"],
      [type |-> U("owl:SymmetricProperty"), name |-> "symmetric"],
      [type |-> U("owl:AsymmetricProperty"), name |-> "asymmetric"],
      [type |-> U("owl:ReflexiveProperty"), name |-> "reflexive"],
      [type |-> U("owl:IrreflexiveProperty"), name |-> "irreflexive"]>>

\* the names of the probes that find their type assertion on prop
RECURSIVE Probe(_, _)
Probe(prop, probes) ==
    IF probes = <<>> THEN <<>>
    ELSE (IF Contains(prop, "type", Head(probes).type)
          THEN <<Head(probes).name>> ELSE <<>>)
         \o Probe(prop, Tail(probes))

\* the mutation of the characteristics block: it runs for every property type
CharacteristicsOfAnyType(prop, prop_type) == Some(Probe(prop, CharacteristicProbes))

\* info['characteristics'] of _extract_property_info: None stands for a
\* record without the key
Characteristics(prop, prop_type) ==
    IF prop_type = "object" THEN Some(Probe(prop, CharacteristicProbes)) ELSE None

\* _extract_property_info(prop, prop_type)
extract_property_info(prop, prop_type) ==
    [uri |-> Str(prop), property_type |-> prop_type,
     characteristics |-> Characteristics(prop, prop_type)]

\* one loop of OntologyProcessor.get_properties: the entries it writes
RECURSIVE PropertyInfos(_, _)
PropertyInfos(ss, prop_type) ==
    IF ss = <<>> THEN <<>>
    ELSE (IF IsURIRef(Head(ss))
          THEN <<extract_property_info(Head(ss), prop_type)>> ELSE <<>>)
         \o PropertyInfos(Tail(ss), prop_type)

\* OntologyProcessor.get_properties(): one dict keyed by URI, written by the
\* object, the data and the annotation loop in turn
get_properties ==
    Update(Update(Update(<<>>,
        PropertyInfos(SubjectsOf("type", U("owl:ObjectProperty")), "object")),
        PropertyInfos(SubjectsOf("type", U("owl:DatatypeProperty")), "data")),
        PropertyInfos(SubjectsOf("type", U("owl:AnnotationProperty")), "annotation"))

\* {k: v for k, v in all_properties.items() if v.get('property_type') == t}
OfPropertyType(all_properties, t) ==
    LET IsT(v) == v.property_type = t
    IN  SelectSeq(all_properties, IsT)

\* str(p) of the predicates of the model, and the namespaces they lie in
RdfNamespace ==
    <<"h", "t", "t", "p", ":", "/", "/", "w", "w", "w", ".", "w", "3", ".", "o", "r", "g", "/", "1", "9", "9", "9", "/", "0", "2", "/", "2", "2", "-", "r", "d", "f", "-", "s", "y", "n", "t", "a", "x", "-", "n", "s", "#">>
RdfsNamespace ==
    <<"h", "t", "t", "p", ":", "/", "/", "w", "w", "w", ".", "w", "3", ".", "o", "r", "g", "/", "2", "0", "0", "0", "/", "0", "1", "/", "r", "d", "f", "-", "s", "c", "h", "e", "m", "a", "#">>
DcNamespace ==
    <<"h", "t", "t", "p", ":", "/", "/", "p", "u", "r", "l", ".", "o", "r", "g", "/", "d", "c", "/", "e", "l", "e", "m", "e", "n", "t", "s", "/", "1", ".", "1", "/">>
DctermsNamespace ==
    <<"h", "t", "t", "p", ":", "/", "/", "p", "u", "r", "l", ".", "o", "r", "g", "/", "d", "c", "/", "t", "e", "r", "m", "s", "/">>
OwlNamespace ==
    <<"h", "t", "t", "p", ":", "/", "/", "w", "w", "w", ".", "w", "3", ".", "o", "r", "g", "/", "2", "0", "0", "2", "/", "0", "7", "/", "o", "w", "l", "#">>
ExNamespace ==
    <<"h", "t", "t", "p", ":", "/", "/", "e", "x", ".", "o", "r", "g", "/">>
PredicateChars(p) ==
    IF p = "type" THEN RdfNamespace \o <<"t", "y", "p", "e">>
    ELSE IF p = "rdfs:label" THEN RdfsNamespace \o <<"l", "a", "b", "e", "l">>
    ELSE IF p = "rdfs:comment" THEN RdfsNamespace \o <<"c", "o", "m", "m", "e", "n", "t">>
    ELSE IF p = "owl:sameAs" THEN OwlNamespace \o <<"s", "a", "m", "e", "A", "s">>
    ELSE IF p = "dc:creator" THEN DcNamespace \o <<"c", "r", "e", "a", "t", "o", "r">>
    ELSE IF p = "dcterms:title" THEN DctermsNamespace \o <<"t", "i", "t", "l", "e">>
    ELSE ExNamespace \o <<"k", "n", "o", "w", "s">>

\* exclude_namespaces and exclude_props of get_named_individuals
ExcludeNamespaces == <<RdfNamespace, RdfsNamespace, DcNamespace, DctermsNamespace>>
ExcludePropsNone == {}
ExcludeProps == {"owl:sameAs"}

\* ns_match: str(p).startswith(ns) for one of the excluded namespaces
NsMatch(p) ==
    \E i \in 1..Len(ExcludeNamespaces) :
        StartsWith(PredicateChars(p), ExcludeNamespaces[i])

\* a prefix that is shown: non-empty and not generated
Shown(q) == ~q.raised /\ q.prefix # "" /\ ~is_auto_generated(q.prefix)

\* the assertions loop of get_named_individuals over the pairs of one
\* individual, against the prefix table b
RECURSIVE Assertions(_, _)
Assertions(pairs, b) ==
    IF pairs = <<>> THEN [out |-> <<>>, b |-> b]
    ELSE LET p == Head(pairs).p
             o == Head(pairs).o
         IN  IF o.k = "bnode" \/ p \in ExcludeProps \/ NsMatch(p)
             THEN Assertions(Tail(pairs), b)
             ELSE LET cp == compute_qname(U(p), b)
                      prop_qname ==
                          IF cp.q.raised THEN p
                          ELSE IF Shown(cp.q) THEN cp.q.prefix \o ":" \o cp.q.name
                          ELSE IF cp.q.name # "" THEN cp.q.name ELSE p
                      co == IF o.k = "uri" THEN compute_qname(o, cp.b)
                            ELSE [q |-> Raised, b |-> cp.b]
                      obj_label ==
                          IF o.k = "uri" /\ Shown(co.q)
                          THEN co.q.prefix \o ":" \o co.q.name ELSE Str(o)
                      obj_uri ==
                          IF o.k = "uri" THEN Some(resolve_url(Str(o))) ELSE None
                      rest == Assertions(Tail(pairs), co.b)
                  IN  [out |-> <<<<prop_qname, resolve_url(p), obj_label,
                                   obj_uri>>>> \o rest.out,
                       b |-> rest.b]

\* the objects of a type loop: not the owl:NamedIndividual marker
NotTheMarker(o) == o # U("owl:NamedIndividual")

\* str(o) of each term of a sequence
RECURSIVE Strs(_)
Strs(os) == IF os = <<>> THEN <<>> ELSE <<Str(Head(os))>> \o Strs(Tail(os))

\* the loop of OntologyParser.get_named_individuals over the subjects ss,
\* against the prefix table b
RECURSIVE ParserIndividuals(_, _)
ParserIndividuals(ss, b) ==
    IF ss = <<>> THEN [out |-> <<>>, b |-> b]
    ELSE IF Head(ss).k = "bnode" THEN ParserIndividuals(Tail(ss), b)
    ELSE LET s == Head(ss)
             l == LabelOf(s, b)
             a == Assertions(PredicateObjects(s), l.b)
             rest == ParserIndividuals(Tail(ss), a.b)
         IN  [out |-> <<[uri |-> Str(s), label |-> l.value, type_label |-> "ni",
                         types |-> NamedElements(
                             SelectSeq(Objects(s, "type"), NotTheMarker), "c"),
                         same_as |-> Strs(Objects(s, "owl:sameAs")),
                         assertions |-> a.out]>> \o rest.out,
              b |-> rest.b]

\* the loop of OntologyProcessor.get_individuals over the subjects ss
RECURSIVE ProcessorIndividuals(_)
ProcessorIndividuals(ss) ==
    IF ss = <<>> THEN <<>>
    ELSE LET IsType(o) == IsURIRef(o) /\ NotTheMarker(o)
         IN  (IF IsURIRef(Head(ss))
              THEN <<[uri |-> Str(Head(ss)),
                      types |-> Strs(SelectSeq(Objects(Head(ss), "type"), IsType))]>>
              ELSE <<>>)
             \o ProcessorIndividuals(Tail(ss))

\* OntologyParser.get_namespaces(): sorted by prefix
get_namespaces ==
    Sorted(bindings, [i \in 1..Len(bindings) |-> KeyRank(bindings[i].prefix)])

\* the documentation model of one run, before anything is extracted
EmptyModel ==
    [classes |-> <<>>, object_properties |-> <<>>, data_properties |-> <<>>,
     annotation_properties |-> <<>>, individuals |-> <<>>, namespaces |-> <<>>]

ExtractUnchanged ==
    UNCHANGED <<graph, walk_vars, literal_vars, label_vars, name_vars,
                process_vars, subject_order, late_vars>>

\* classes = parser.get_classes() / classes = processor.get_classes()
extract_classes ==
    /\ extract_pc = "classes"
    /\ LET ss == SubjectsOf("type", U("owl:Class"))
           r == ParserClasses(ss, bindings)
       IN  IF impl = "parser"
           THEN /\ model' = [model EXCEPT !.classes = SortedByLabel(r.out)]
                /\ bindings' = r.b
           ELSE /\ model' = [model EXCEPT !.classes = ProcessorEntities(ss)]
                /\ UNCHANGED bindings
    /\ extract_pc' = "properties"
    /\ UNCHANGED models
    /\ ExtractUnchanged

\* the three get_*_properties calls of the parser / get_properties() of the
\* processor and the split by property_type
extract_properties ==
    /\ extract_pc = "properties"
    /\ LET op == ParserProperties(SubjectsOf("type", U("owl:ObjectProperty")),
                                  "op", bindings)
           dp == ParserProperties(SubjectsOf("type", U("owl:DatatypeProperty")),
                                  "dp", op.b)
           ap == ParserProperties(SubjectsOf("type", U("owl:AnnotationProperty")),
                                  "ap", dp.b)
           all_properties == get_properties
       IN  IF impl = "parser"
           THEN /\ model' = [model EXCEPT
                               !.object_properties = SortedByLabel(op.out),
                               !.data_properties = SortedByLabel(dp.out),
                               !.annotation_properties = SortedByLabel(ap.out)]
                /\ bindings' = ap.b
           ELSE /\ model' = [model EXCEPT
                               !.object_properties =
                                   OfPropertyType(all_properties, "object"),
                               !.data_properties =
                                   OfPropertyType(all_properties, "data"),
                               !.annotation_properties =
                                   OfPropertyType(all_properties, "annotation")]
                /\ UNCHANGED bindings
    /\ extract_pc' = "individuals"
    /\ UNCHANGED models
    /\ ExtractUnchanged

\* individuals = parser.get_named_individuals() /
\* individuals = processor.get_individuals()
extract_individuals ==
    /\ extract_pc = "individuals"
    /\ LET ss == SubjectsOf("type", U("owl:NamedIndividual"))
           r == ParserIndividuals(ss, bindings)
       IN  IF impl = "parser"
           THEN /\ model' = [model EXCEPT !.individuals = SortedByLabel(r.out)]
                /\ bindings' = r.b
           ELSE /\ model' = [model EXCEPT !.individuals = ProcessorIndividuals(ss)]
                /\ UNCHANGED bindings
    /\ extract_pc' = "namespaces"
    /\ UNCHANGED models
    /\ ExtractUnchanged

\* namespaces = parser.get_namespaces() / the namespaces dict of generate();
\* the run is over and the model is handed out
extract_namespaces ==
    /\ extract_pc = "namespaces"
    /\ models' = Append(models,
                    [model EXCEPT !.namespaces =
                        IF impl = "parser" THEN get_namespaces ELSE bindings])
    /\ model' = EmptyModel
    /\ extract_pc' = IF Len(models) + 1 < MaxRuns THEN "classes" ELSE "done"
    /\ UNCHANGED bindings
    /\ ExtractUnchanged

\* the graphs the extraction is run on: a named subject with up to MaxTypes
\* type assertions, and a second subject, named or anonymous, of one of a few
\* shapes, in either encounter order
NamedSubject == U("http://ex.org/A")
OtherSubjects == {U("http://other.org/B"), BN("b0")}
TypePool ==
    {U("owl:Class"), U("owl:ObjectProperty"), U("owl:DatatypeProperty"),
     U("owl:NamedIndividual"), U("owl:FunctionalProperty")}
OtherShapes ==
    {<<>>,
     <<Pair("type", NamedSubject)>>,
     <<Pair("type", NamedSubject), Pair("type", U("rdfs:Class"))>>,
     <<Pair("type", U("owl:Class")), Pair("type", NamedSubject)>>,
     <<Pair("type", U("owl:Class")), Pair("rdfs:label", Lit("Zed", "en"))>>,
     <<Pair("type", U("owl:SymmetricProperty")),
       Pair("type", U("owl:DatatypeProperty")),
       Pair("type", U("owl:FunctionalProperty")),
       Pair("type", U("owl:ObjectProperty"))>>,
     <<Pair("type", U("owl:AnnotationProperty")),
       Pair("type", U("owl:FunctionalProperty"))>>,
     <<Pair("type", U("owl:NamedIndividual")),
       Pair("type", NamedSubject),
       Pair("ex:knows", NamedSubject),
       Pair("owl:sameAs", NamedSubject),
       Pair("rdfs:label", Lit("Zed", "en"))>>,
     <<Pair("type", U("owl:NamedIndividual")),
       Pair("dc:creator", Lit("Bob", "")),
       Pair("ex:knows", BN("b1")),
       Pair("ex:knows", Lit("Bob", "")),
       Pair("rdfs:comment", Lit("c", "en")),
       Pair("dcterms:title", Lit("T", "en"))>>}

InitExtract ==
    /\ impl \in {"processor", "parser"}
    /\ \E ts \in DistinctSeqsUpTo(TypePool, MaxTypes), other \in OtherSubjects,
          shape \in OtherShapes, first \in BOOLEAN :
          /\ graph = [s \in {NamedSubject.v, other.v} |->
                        IF s = NamedSubject.v
                        THEN [i \in 1..Len(ts) |-> Pair("type", ts[i])]
                        ELSE shape]
          /\ subject_order = IF first THEN <<NamedSubject, other>>
                             ELSE <<other, NamedSubject>>
    /\ defined_resources = IF impl = "parser" THEN DefinedResources ELSE {}
    /\ bindings \in {<<>>, <<Namespace("ex", "http://ex.org/")>>}
    /\ extract_pc = "classes"
    /\ model = EmptyModel
    /\ models = <<>>
    /\ stack = <<>> /\ record = NoneV /\ pc = "idle"
    /\ input = [encoded |-> FALSE, members |-> <<>>]
    /\ LiteralIdle
    /\ LabelIdle
    /\ NameIdle
    /\ ProcessIdle
    /\ LateIdle

NextExtract ==
    \/ extract_classes
    \/ extract_properties
    \/ extract_individuals
    \/ extract_namespaces

SpecExtract == InitExtract /\ [][NextExtract]_vars

\* the collections of a model whose records are top-level entities
Collections ==
    {"classes", "object_properties", "data_properties",
     "annotation_properties", "individuals"}

\* the models extracted so far: the finished runs and the run under way
Extracted == {models[i] : i \in 1..Len(models)} \cup {model}

\* the subjects of the graph that are blank nodes
AnonymousSubjects ==
    {subject_order[i].v : i \in {j \in 1..Len(subject_order) :
                                    subject_order[j].k = "bnode"}}
NamedSubjects ==
    {subject_order[i].v : i \in {j \in 1..Len(subject_order) :
                                    subject_order[j].k = "uri"}}

\* C15: in every extraction result every uri of the class, object-property,
\* data-property, annotation-property and individual collections is a named
\* node of the graph; a blank-node subject, whatever its types, has no
\* top-level record.
C15_NoAnonymousTopLevel ==
    \A m \in Extracted : \A c \in Collections : \A i \in 1..Len(m[c]) :
        /\ m[c][i].uri \in NamedSubjects
        /\ m[c][i].uri \notin AnonymousSubjects

\* a finished run over a graph whose blank node is typed owl:Class and whose
\* named subject gave a class record
C15_Witness ==
    /\ Len(models) >= 1
    /\ \E i \in 1..Len(subject_order) :
          /\ subject_order[i].k = "bnode"
          /\ Contains(subject_order[i], "type", U("owl:Class"))
    /\ Len(models[1].classes) = 1
    /\ models[1].classes[1].uri = NamedSubject.v

\* the subjects of the graph that are themselves classes: typed owl:Class or
\* rdfs:Class
IsClass(s) ==
    Contains(s, "type", U("owl:Class")) \/ Contains(s, "type", U("rdfs:Class"))

\* the named subjects typed c that are not themselves classes
StatedMembers(c) ==
    {subject_order[i].v : i \in {j \in 1..Len(subject_order) :
        /\ subject_order[j].k = "uri"
        /\ Contains(subject_order[j], "type", U(c))
        /\ ~IsClass(subject_order[j])}}

\* C16: for every class the parser extracts, members is exactly the set of
\* named subjects typed with the class that are not themselves classes
\* (neither owl:Class nor rdfs:Class typed).
C16_ClassMembers ==
    impl = "parser" =>
        \A m \in Extracted : \A i \in 1..Len(m.classes) :
            LET members == m.classes[i].members
            IN  {members[k].uri : k \in 1..Len(members)}
                    = StatedMembers(m.classes[i].uri)

\* the characteristic names whose OWL type assertion is on the property
StatedCharacteristics(uri) ==
    {CharacteristicProbes[i].name : i \in {j \in 1..Len(CharacteristicProbes) :
        Contains(U(uri), "type", CharacteristicProbes[j].type)}}

\* the elements of a sequence, and a sequence without a repeated element
Range(seq) == {seq[i] : i \in 1..Len(seq)}
NoRepeat(seq) == \A i, j \in 1..Len(seq) : seq[i] = seq[j] => i = j

\* C17: the characteristics of every object-property record are exactly the
\* characteristic names whose type assertion is on the property in the graph;
\* a data-property or annotation-property record carries no characteristics,
\* whatever type assertions the property has.
C17_PropertyCharacteristics ==
    impl = "processor" =>
        \A m \in Extracted :
            /\ \A i \in 1..Len(m.object_properties) :
                  LET r == m.object_properties[i]
                  IN  /\ r.characteristics # None
                      /\ NoRepeat(r.characteristics[1])
                      /\ Range(r.characteristics[1]) = StatedCharacteristics(r.uri)
            /\ \A c \in {"data_properties", "annotation_properties"} :
                  \A i \in 1..Len(m[c]) : m[c][i].characteristics = None

\* a finished run that gave a functional object property and an annotation
\* property whose functional type assertion is in the graph
C17_Witness ==
    /\ impl = "processor"
    /\ Len(models) >= 1
    /\ \E i \in 1..Len(models[1].object_properties) :
          models[1].object_properties[i].characteristics = Some(<<"functional">>)
    /\ \E i \in 1..Len(models[1].annotation_properties) :
          "functional" \in
              StatedCharacteristics(models[1].annotation_properties[i].uri)

\* the predicates an assertion never has: label, comment, rdf:type and
\* owl:sameAs, and the predicates of the reserved namespaces
\* (the RDF, RDFS, DC and DCTERMS vocabularies)
Predicates ==
    {"type", "rdfs:label", "rdfs:comment", "owl:sameAs", "dc:creator",
     "dcterms:title", "ex:knows"}
DedicatedPredicates == {"rdfs:label", "rdfs:comment", "type", "owl:sameAs"}
ReservedNamespaces == {RdfNamespace, RdfsNamespace, DcNamespace, DctermsNamespace}
Reserved(p) == \E ns \in ReservedNamespaces : StartsWith(PredicateChars(p), ns)

\* the predicate/object pairs of an individual that are to be assertions:
\* a non-anonymous object, and a predicate that is neither dedicated nor
\* reserved
StatedAssertions(uri) ==
    LET Kept(pair) ==
            /\ pair.o.k # "bnode"
            /\ pair.p \notin DedicatedPredicates
            /\ ~Reserved(pair.p)
    IN  SelectSeq(PredicateObjects(U(uri)), Kept)

\* the tuple (display name, property URI, display value, object URI) is the
\* assertion of the pair
AssertionOf(tuple, pair) ==
    /\ tuple[2] = resolve_url(pair.p)
    /\ IF pair.o.k = "uri"
       THEN tuple[4] = Some(resolve_url(Str(pair.o)))
       ELSE tuple[4] = None /\ tuple[3] = Str(pair.o)

\* C18: no assertion of an extracted individual has the predicate label,
\* comment, rdf:type or owl:sameAs or a predicate of a reserved namespace;
\* every other predicate/object pair of the individual with a non-anonymous
\* object has exactly one assertion tuple, in the order of the pairs.
C18_AssertionsExclusion ==
    impl = "parser" =>
        \A m \in Extracted : \A i \in 1..Len(m.individuals) :
            LET r == m.individuals[i]
                stated == StatedAssertions(r.uri)
            IN  /\ \A k \in 1..Len(r.assertions) :
                      \A p \in Predicates :
                          p \in DedicatedPredicates \/ Reserved(p)
                              => r.assertions[k][2] # resolve_url(p)
                /\ Len(r.assertions) = Len(stated)
                /\ \A k \in 1..Len(stated) : AssertionOf(r.assertions[k], stated[k])

\* a finished run of the parser over an individual with an owl:sameAs link,
\* a label and one further pair, which is its only assertion
C18_Witness ==
    /\ impl = "parser"
    /\ Len(models) >= 1
    /\ \E i \in 1..Len(models[1].individuals) :
          LET r == models[1].individuals[i]
          IN  /\ Objects(U(r.uri), "owl:sameAs") # <<>>
              /\ Objects(U(r.uri), "rdfs:label") # <<>>
              /\ Len(r.assertions) = 1
              /\ r.assertions[1][2] = "ex:knows"

-----------------------------------------------------------------------------
(* The Uniqueness Resolver leaves its arguments alone *)

-----------------------------------------------------------------------------
(* OntologyProcessor: the generic blank-node fallback *)

\* str(term) of the predicates, URIs and literals of this section, as
\* characters
TermChars(t) ==
    IF t = "onProperty" THEN OwlNamespace \o <<"o", "n", "P", "r", "o", "p", "e", "r", "t", "y">>
    ELSE IF t = "someValuesFrom"
    THEN OwlNamespace \o <<"s", "o", "m", "e", "V", "a", "l", "u", "e", "s", "F", "r", "o", "m">>
    ELSE IF t = "http://ex.org/A" THEN ExNamespace \o <<"A">>
    ELSE IF t = "Bob" THEN <<"B", "o", "b">>
    ELSE IF t = "L" THEN <<"L">>
    ELSE IF t = "C" THEN <<"C">>
    ELSE PredicateChars(t)

\* meaningful_props[:3]
MeaningfulLimit == 3

\* f"{label}: {value}"
ColonSpace == <<":", " ">>

\* the loop over predicate_objects(bnode) that fills meaningful_props
RECURSIVE MeaningfulProps(_)
MeaningfulProps(pairs) ==
    IF pairs = <<>> THEN <<>>
    ELSE LET p == Head(pairs).p
             o == Head(pairs).o
             label == uri_to_label(TermChars(p))
         IN  (IF p \in {"type", "first", "rest"} THEN <<>>
              ELSE IF o.k = "lit"
              THEN <<label \o ColonSpace \o TermChars(Str(o))>>
              ELSE IF o.k = "uri"
              THEN <<label \o ColonSpace \o uri_to_label(TermChars(Str(o)))>>
              ELSE <<>>)
             \o MeaningfulProps(Tail(pairs))

\* class_expression = self._process_class_expression(bnode) is a dict: a
\* restriction, or a node with one of the four list and complement predicates
IsClassExpression(node) == DirectResult(node) # NoneV \/ ListCase(node) # ""

\* _resolve_blank_node(bnode): None, or the string returned, as the parts
\* that " | " joins
resolve_blank_node(node) ==
    LET labels == Objects(node, "rdfs:label")
        comments == Objects(node, "rdfs:comment")
        meaningful_props == MeaningfulProps(PredicateObjects(node))
    IN  IF labels # <<>> THEN Some(<<TermChars(Str(labels[1]))>>)
        ELSE IF comments # <<>> THEN Some(<<TermChars(Str(comments[1]))>>)
        ELSE IF IsClassExpression(node) THEN None
        ELSE IF meaningful_props # <<>>
        THEN Some(Prefix(meaningful_props, MeaningfulLimit))
        ELSE None

EarlyUnchanged ==
    UNCHANGED <<graph, walk_vars, literal_vars, label_vars, name_vars,
                process_vars, extract_vars>>

ResolveBlankNode ==
    /\ bnode # NoneT
    /\ bnode_resolved = Pending
    /\ bnode_resolved' = Returned(resolve_blank_node(bnode))
    /\ UNCHANGED bnode
    /\ EarlyUnchanged
    /\ LateUnchangedBut("blank")

\* the triples the blank node may carry
BlankPairs ==
    {Pair("rdfs:label", Lit("L", "en")),
     Pair("rdfs:comment", Lit("C", "en")),
     Pair("type", U("owl:Restriction")),
     Pair("onProperty", U("http://ex.org/A")),
     Pair("someValuesFrom", U("http://ex.org/A")),
     Pair("ex:knows", Lit("Bob", "")),
     Pair("ex:knows", U("http://ex.org/A")),
     Pair("dc:creator", Lit("Bob", ""))}

InitBlank ==
    /\ bnode = BN("b0")
    /\ graph \in {[s \in {"b0"} |-> ps] :
                    ps \in DistinctSeqsUpTo(BlankPairs, MaxBlankPairs)}
    /\ bnode_resolved = Pending
    /\ WalkIdle
    /\ LiteralIdle
    /\ LabelIdle
    /\ NameIdle
    /\ ProcessIdle
    /\ ExtractIdle
    /\ LateIdleBut("blank")

NextBlank == ResolveBlankNode

SpecBlank == InitBlank /\ [][NextBlank]_vars

\* what the fallback is to return for the blank node: its label, else its
\* comment, else its first three formatted pairs, else nothing
StatedFallback ==
    LET labels == Objects(bnode, "rdfs:label")
        comments == Objects(bnode, "rdfs:comment")
        formatted == MeaningfulProps(PredicateObjects(bnode))
    IN  IF labels # <<>> THEN Some(<<TermChars(Str(labels[1]))>>)
        ELSE IF comments # <<>> THEN Some(<<TermChars(Str(comments[1]))>>)
        ELSE IF formatted # <<>> THEN Some(Prefix(formatted, 3))
        ELSE None

\* C21: _resolve_blank_node returns the label of the node if it has one, else
\* its comment if it has one, else at most three of its non-structural
\* predicate/object pairs formatted `localName: value`; it returns nothing
\* only when the node has no label, no comment and no such pair.
C21_BlankNodeFallback ==
    bnode_resolved # Pending => bnode_resolved.value = StatedFallback

-----------------------------------------------------------------------------
(* OntologyParser: the metadata record *)

\* the mutation of the declaration lookup: no node is found
find_no_ontology_node == NoneT

\* _find_ontology_node(): the first subject typed owl:Ontology, or None
find_ontology_node ==
    LET found == SubjectsOf("type", U("owl:Ontology"))
    IN  IF found = <<>> THEN NoneT ELSE found[1]

\* self.ontology_node = self._find_ontology_node(), in __init__
FindOntologyNode ==
    /\ ontology_node = Pending
    /\ metadata = Pending
    /\ ontology_node' = Returned(find_ontology_node)
    /\ UNCHANGED <<metadata, graph, walk_vars, literal_vars, label_vars,
                   name_vars, process_vars, extract_vars>>
    /\ LateUnchangedBut("meta")

\* the objects of subject for each predicate of preds in turn
RECURSIVE ObjectsOfAll(_, _)
ObjectsOfAll(subject, preds) ==
    IF preds = <<>> THEN <<>>
    ELSE Objects(subject, Head(preds)) \o ObjectsOfAll(subject, Tail(preds))

\* _get_list(subject, predicates) over the objects os, against the prefix
\* table b
RECURSIVE GetList(_, _)
GetList(os, b) ==
    IF os = <<>> THEN [out |-> <<>>, b |-> b]
    ELSE LET l == LabelOf(Head(os), b)
             rest == GetList(Tail(os), l.b)
         IN  [out |-> <<l.value>> \o rest.out, b |-> rest.b]

\* OntologyMetadata(uri=...): the fields left at their defaults
OntologyMetadata(uri) ==
    [uri |-> uri, title |-> None, date |-> None, version |-> None,
     creators |-> <<>>, contributors |-> <<>>, publishers |-> <<>>,
     imports |-> <<>>, license |-> None, abstract |-> None,
     description |-> None]

\* get_metadata()
get_metadata ==
    /\ ontology_node # Pending
    /\ metadata = Pending
    /\ LET node == ontology_node.value
           creators == GetList(ObjectsOfAll(node, <<"dc:creator", "dcterms:creator">>),
                               bindings)
           contributors ==
               GetList(ObjectsOfAll(node, <<"dc:contributor", "dcterms:contributor">>),
                       creators.b)
           publishers ==
               GetList(ObjectsOfAll(node, <<"dc:publisher", "dcterms:publisher">>),
                       contributors.b)
           imports == GetList(ObjectsOfAll(node, <<"owl:imports">>), publishers.b)
       IN  IF ~Truthy(node)
           THEN /\ metadata' = Returned(OntologyMetadata("unknown"))
                /\ UNCHANGED bindings
           ELSE /\ metadata' = Returned(
                      [uri |-> Str(node),
                       title |-> get_literal(node, <<"dc:title", "dcterms:title",
                                                     "rdfs:label">>),
                       date |-> get_literal(node, <<"dc:date", "dcterms:date">>),
                       version |-> get_literal(node, <<"owl:versionInfo">>),
                       creators |-> creators.out,
                       contributors |-> contributors.out,
                       publishers |-> publishers.out,
                       imports |-> imports.out,
                       license |-> get_literal(node, <<"dc:rights", "dcterms:rights",
                                                       "dcterms:license">>),
                       abstract |-> get_literal(node, <<"dcterms:abstract",
                                                        "rdfs:comment">>),
                       description |-> get_literal(node, <<"dc:description",
                                                           "dcterms:description">>)])
                /\ bindings' = imports.b
    /\ UNCHANGED <<ontology_node, graph, walk_vars, literal_vars, label_vars,
                   name_vars, process_vars, subject_order, extract_pc, model,
                   models>>
    /\ LateUnchangedBut("meta")

\* the graphs the metadata is read from: a named and an anonymous subject,
\* each typed owl:Ontology or owl:Class, in either encounter order, the first
\* of them with up to MaxCandidates annotations
OntologySubject == U("http://ex.org/onto")
OntologyPairs ==
    {Pair("dc:title", Lit("T", "en")),
     Pair("rdfs:label", Lit("Zed", "en")),
     Pair("owl:versionInfo", Lit("1", "")),
     Pair("dc:creator", Lit("Bob", "")),
     Pair("dc:creator", U("http://ex.org/A")),
     Pair("owl:imports", U("http://other.org/B"))}

InitMetadata ==
    /\ \E ts \in [{"http://ex.org/onto", "b0"} -> {U("owl:Ontology"), U("owl:Class")}],
          ps \in DistinctSeqsUpTo(OntologyPairs, MaxCandidates),
          first \in BOOLEAN :
          /\ subject_order = IF first THEN <<OntologySubject, BN("b0")>>
                             ELSE <<BN("b0"), OntologySubject>>
          /\ graph = [s \in {"http://ex.org/onto", "b0"} |->
                        <<Pair("type", ts[s])>>
                        \o (IF s = subject_order[1].v THEN ps ELSE <<>>)]
    /\ bindings \in {<<>>, <<Namespace("ex", "http://ex.org/")>>}
    /\ extract_pc = "idle" /\ model = NoneV /\ models = <<>>
    /\ ontology_node = Pending
    /\ metadata = Pending
    /\ WalkIdle
    /\ LiteralIdle
    /\ LabelIdle
    /\ NameIdle
    /\ ProcessIdle
    /\ LateIdleBut("meta")

NextMetadata ==
    \/ FindOntologyNode
    \/ get_metadata

SpecMetadata == InitMetadata /\ [][NextMetadata]_vars

\* the subjects of the graph that are typed owl:Ontology
Declarations ==
    {subject_order[i] : i \in {j \in 1..Len(subject_order) :
        Contains(subject_order[j], "type", U("owl:Ontology"))}}

\* C22: without a subject typed owl:Ontology get_metadata returns the record
\* whose uri is "unknown" and whose other fields are all empty; with a
\* declaration the uri of the record is the identifier of a declaring node;
\* the call returns in both cases.
C22_MissingDeclaration ==
    metadata # Pending =>
        IF Declarations = {}
        THEN metadata.value =
                [uri |-> "unknown", title |-> None, date |-> None,
                 version |-> None, creators |-> <<>>, contributors |-> <<>>,
                 publishers |-> <<>>, imports |-> <<>>, license |-> None,
                 abstract |-> None, description |-> None]
        ELSE metadata.value.uri \in {Str(d) : d \in Declarations}

\* get_metadata has returned the sentinel record for a graph that holds
\* annotated subjects but no declaration
C22_Witness ==
    /\ metadata # Pending
    /\ Declarations = {}
    /\ metadata.value.uri = "unknown"
    /\ Len(graph[subject_order[1].v]) > 2

-----------------------------------------------------------------------------
(* OntologyParser: the comment block *)

\* sep.join(items)
RECURSIVE StrJoin(_, _)
StrJoin(sep, items) ==
    IF items = <<>> THEN ""
    ELSE IF Len(items) = 1 THEN items[1]
    ELSE items[1] \o sep \o StrJoin(sep, Tail(items))

\* _get_comment_with_translations(node); `best and others` is false for an
\* absent or empty best and for an empty list
get_comment_with_translations(node) ==
    LET found == ExtractPreferredAndOthers(node, <<"rdfs:comment">>)
        best == found.preferred
        others == found.others
    IN  IF best # None /\ best[1] # "" /\ others # <<>>
        THEN Some(best[1] \o "\n\n" \o StrJoin("\n", others))
        ELSE best

GetCommentWithTranslations ==
    /\ comment_block = Pending
    /\ comment_block' = Returned(get_comment_with_translations(U("K")))
    /\ EarlyUnchanged
    /\ LateUnchangedBut("comment")

\* the objects a subject may carry under rdfs:comment
CommentObjects ==
    {Lit("A person", "en"), Lit("Une personne", "fr"), Lit("Een persoon", ""),
     Lit("A human", "en"), Lit("Persona", "it"), U("X")}

InitComment ==
    /\ \E os \in DistinctSeqsUpTo(CommentObjects, MaxCandidates) :
          graph = [s \in {"K"} |-> [i \in 1..Len(os) |-> Pair("rdfs:comment", os[i])]]
    /\ comment_block = Pending
    /\ WalkIdle
    /\ LiteralIdle
    /\ LabelIdle
    /\ NameIdle
    /\ ProcessIdle
    /\ ExtractIdle
    /\ LateIdleBut("comment")

NextComment == GetCommentWithTranslations

SpecComment == InitComment /\ [][NextComment]_vars

\* the preferred comment and the formatted alternates the block is built from
CommentItems ==
    LET found == ExtractPreferredAndOthers(U("K"), <<"rdfs:comment">>)
    IN  IF found.preferred = None THEN <<>>
        ELSE <<found.preferred[1]>> \o found.others

\* C23: the comment block is the preferred comment followed by every
\* alternate, consecutive items separated by a blank line; the preferred
\* comment alone when there is no alternate; none when there is no comment.
C23_CommentBlock ==
    comment_block # Pending =>
        comment_block.value =
            IF CommentItems = <<>> THEN None
            ELSE Some(StrJoin("\n\n", CommentItems))

-----------------------------------------------------------------------------
(* HTMLGenerator: the label of one entity *)

GetEntityLabel ==
    /\ label_entity # NoneV
    /\ entity_label = Pending
    /\ entity_label' = Returned(get_entity_label(label_entity, label_lang))
    /\ UNCHANGED <<label_entity, label_lang>>
    /\ EarlyUnchanged
    /\ LateUnchangedBut("elabel")

\* the entities whose label is asked for: a labels dict of up to MaxLabels
\* languages in any insertion order, a language possibly with an empty list
Languages == {"en", "fr", "it"}
RequestedLanguages == {"en", "fr", "de"}
LabelLists ==
    [en |-> {<<>>, <<<<"P", "e", "r", "s", "o", "n">>, <<"H", "u", "m", "a", "n">>>>},
     fr |-> {<<>>, <<<<"P", "e", "r", "s", "o", "n", "n", "e">>>>},
     it |-> {<<>>, <<<<"P", "e", "r", "s", "o", "n", "a">>>>}]
LabelEntries == {LangLabels(l, vs) : l \in Languages, vs \in UNION {LabelLists[k] : k \in Languages}}
LabelDicts ==
    {d \in DistinctSeqsUpTo({e \in LabelEntries : e.values \in LabelLists[e.lang]},
                            MaxLabels) :
        \A i, j \in 1..Len(d) : d[i].lang = d[j].lang => i = j}
EntityUris ==
    {OntoNamespace \o <<"N", "a", "m", "e">>,
     SiteNamespace \o <<"N", "a", "m", "e">>,
     <<"N", "a", "m", "e">>}

InitEntityLabel ==
    /\ \E uri \in EntityUris, d \in LabelDicts : label_entity = Entity(uri, d)
    /\ label_lang \in RequestedLanguages
    /\ entity_label = Pending
    /\ graph = [s \in {} |-> <<>>]
    /\ WalkIdle
    /\ LiteralIdle
    /\ LabelIdle
    /\ NameIdle
    /\ ProcessIdle
    /\ ExtractIdle
    /\ LateIdleBut("elabel")

NextEntityLabel == GetEntityLabel

SpecEntityLabel == InitEntityLabel /\ [][NextEntityLabel]_vars

\* the labels of the entity under language l, in order
LabelsUnder(l) ==
    LET Under(e) == e.lang = l
        hits == SelectSeq(label_entity.labels, Under)
    IN  IF hits = <<>> THEN <<>> ELSE hits[1].values

\* the entries of the labels dict that hold a label
NonEmptyEntries ==
    LET Holds(e) == e.values # <<>>
    IN  SelectSeq(label_entity.labels, Holds)

\* the text of uri after its last c
AfterLast(uri, c) == SubSeq(uri, LastIndexOf(uri, c) + 1, Len(uri))

\* C24: the label of an entity for a requested language L is the first label
\* in L; else the first English label; else the first label of any language;
\* else the text of the URI after its last "#", or after its last "/" when
\* it has no "#"; the result is always a string.
C24_EntityLabelChain ==
    entity_label # Pending =>
        /\ entity_label.value =
              IF LabelsUnder(label_lang) # <<>> THEN LabelsUnder(label_lang)[1]
              ELSE IF LabelsUnder("en") # <<>> THEN LabelsUnder("en")[1]
              ELSE IF NonEmptyEntries # <<>> THEN NonEmptyEntries[1].values[1]
              ELSE IF HasChar(label_entity.uri, HashChar)
              THEN AfterLast(label_entity.uri, HashChar)
              ELSE AfterLast(label_entity.uri, SlashChar)
        /\ entity_label.value \in Seq(STRING)

\* a label was asked for in a language the entity has no label in, and the
\* English label was returned
C24_Witness ==
    /\ entity_label # Pending
    /\ label_lang = "de"
    /\ Len(label_entity.labels) = 2
    /\ label_entity.labels[1].lang = "fr"
    /\ label_entity.labels[1].values # <<>>
    /\ entity_label.value = <<"P", "e", "r", "s", "o", "n">>

-----------------------------------------------------------------------------
(* OntologyFetcher: MIME negotiation *)

EXTENDED_MIME_TYPES ==
    <<"application/rdf+xml", "text/turtle", "application/x-turtle",
      "application/turtle", "text/n3", "application/n-triples",
      "text/n-triples", "application/n-quads", "application/trig",
      "application/ld+json", "text/xml", "application/xml", "text/plain",
      "*/*">>

\* FORMAT_MAPPING.get(content_type, default)
FORMAT_MAPPING_get(content_type, default) ==
    CASE content_type \in {"application/rdf+xml", "text/xml", "application/xml"} -> "xml"
      [] content_type \in {"text/turtle", "application/x-turtle",
                           "application/turtle", "text/plain"} -> "turtle"
      [] content_type = "text/n3" -> "n3"
      [] content_type \in {"application/n-triples", "text/n-triples"} -> "nt"
      [] content_type = "application/n-quads" -> "nquads"
      [] content_type = "application/trig" -> "trig"
      [] content_type = "application/ld+json" -> "json-ld"
      [] OTHER -> default

\* _detect_format_from_content(content), over the bodies a server answers with
detect_format_from_content(content) ==
    CASE content = "<?xml version=\"1.0\"?><rdf:RDF/>" -> "xml"
      [] content = "@prefix ex: <http://ex.org/> ." -> "turtle"
      [] content = "{\"@context\": {}}" -> "json-ld"
      [] OTHER -> "xml"

\* what one session.get(...) followed by raise_for_status() comes to: an
\* exception, or a response with a content type and a body
Failures == {"ConnectionError", "404 Client Error"}
Responses ==
    {[content_type |-> "text/turtle; charset=utf-8",
      text |-> "@prefix ex: <http://ex.org/> ."],
     [content_type |-> "", text |-> "{\"@context\": {}}"]}

\* response.headers.get('content-type', '').split(';')[0].strip()
MediaType(content_type) ==
    IF content_type = "text/turtle; charset=utf-8" THEN "text/turtle"
    ELSE content_type

\* return response.text, detected_format
Fetched(response) ==
    [pending |-> FALSE, raised |-> FALSE,
     value |-> <<response.text,
                 FORMAT_MAPPING_get(MediaType(response.content_type),
                                    detect_format_from_content(response.text))>>]

\* raise Exception(error_msg), the message listing errors
FetchFailed(errors) == [pending |-> FALSE, raised |-> TRUE, value |-> errors]

\* a call of session.get: the Accept header it carried and whether the
\* attempt it belongs to went through
Request(accept, ok) == [accept |-> accept, ok |-> ok]

\* the mutation of the loop: it goes on after an attempt that succeeded
AfterAttemptGoesOn(ok, i) ==
    IF i < Len(EXTENDED_MIME_TYPES) THEN "loop" ELSE "final"

\* where the loop stands after attempt i: returned on success, at the next
\* type or past the loop on failure
AfterAttempt(ok, i) ==
    IF ok THEN "done"
    ELSE IF i < Len(EXTENDED_MIME_TYPES) THEN "loop" ELSE "final"

\* one iteration of `for mime_type in EXTENDED_MIME_TYPES`
TryMimeType ==
    /\ fetch_pc = "loop"
    /\ LET i == mime_index + 1
           mime_type == EXTENDED_MIME_TYPES[i]
       IN  /\ mime_index' = i
           /\ \/ \E response \in Responses :
                   /\ requests_sent' = Append(requests_sent, Request(Some(mime_type), TRUE))
                   /\ fetch_outcome' = Fetched(response)
                   /\ fetch_pc' = AfterAttempt(TRUE, i)
                   /\ UNCHANGED fetch_errors
              \/ \E e \in Failures :
                   /\ requests_sent' = Append(requests_sent, Request(Some(mime_type), FALSE))
                   /\ fetch_errors' = Append(fetch_errors,
                                             "MIME type " \o mime_type \o ": " \o e)
                   /\ fetch_pc' = AfterAttempt(FALSE, i)
                   /\ UNCHANGED fetch_outcome
    /\ EarlyUnchanged
    /\ LateUnchangedBut("fetch")

\* the final request without an Accept header, and the raise that follows
\* its failure
FinalAttempt ==
    /\ fetch_pc = "final"
    /\ fetch_pc' = "done"
    /\ \/ \E response \in Responses :
            /\ requests_sent' = Append(requests_sent, Request(None, TRUE))
            /\ fetch_outcome' = Fetched(response)
            /\ UNCHANGED fetch_errors
       \/ \E e \in Failures :
            /\ requests_sent' = Append(requests_sent, Request(None, FALSE))
            /\ fetch_errors' = Append(fetch_errors, "Final attempt: " \o e)
            /\ fetch_outcome' = FetchFailed(fetch_errors')
    /\ UNCHANGED mime_index
    /\ EarlyUnchanged
    /\ LateUnchangedBut("fetch")

InitFetch ==
    /\ fetch_pc = "loop"
    /\ mime_index = 0
    /\ requests_sent = <<>>
    /\ fetch_errors = <<>>
    /\ fetch_outcome = Pending
    /\ graph = [s \in {} |-> <<>>]
    /\ WalkIdle
    /\ LiteralIdle
    /\ LabelIdle
    /\ NameIdle
    /\ ProcessIdle
    /\ ExtractIdle
    /\ LateIdleBut("fetch")

NextFetch ==
    \/ TryMimeType
    \/ FinalAttempt

SpecFetch == InitFetch /\ [][NextFetch]_vars

\* C25: the Accept types are tried in the order of EXTENDED_MIME_TYPES; an
\* attempt that succeeds is the last request of the call and the call returns
\* with it; the one request without an Accept header comes only after every
\* listed type has failed; the call raises, with every error listed, only
\* when that final request failed too; a call makes at most
\* len(EXTENDED_MIME_TYPES) + 1 requests.
C25_NegotiationOrder ==
    LET n == Len(requests_sent)
        types == Len(EXTENDED_MIME_TYPES)
    IN  /\ n <= types + 1
        /\ \A i \in 1..n :
              /\ requests_sent[i].accept =
                    IF i <= types THEN Some(EXTENDED_MIME_TYPES[i]) ELSE None
              /\ i < n => ~requests_sent[i].ok
        /\ (n > 0 /\ requests_sent[n].ok) <=>
              (fetch_outcome # Pending /\ ~fetch_outcome.raised)
        /\ (fetch_outcome # Pending /\ fetch_outcome.raised) <=>
              (n = types + 1 /\ ~requests_sent[n].ok)
        /\ (fetch_outcome # Pending /\ fetch_outcome.raised) =>
              Len(fetch_outcome.value) = types + 1

\* the call returned with the answer to its third request, after two types
\* had failed
C25_Witness ==
    /\ fetch_outcome # Pending
    /\ ~fetch_outcome.raised
    /\ Len(requests_sent) = 3
    /\ Len(fetch_errors) = 2

-----------------------------------------------------------------------------
(* HTMLGenerator: the labels within a collision group *)

\* C26: in the mapping of _generate_unique_labels two distinct URIs of the
\* same collision group, that is with the same lower-cased display name, have
\* different labels.
C26_GroupLabelsDiffer ==
    ~unique_labels.pending =>
        \A a, b \in 1..Len(Merged) :
            (/\ Merged[a].uri # Merged[b].uri
             /\ Lower(DisplayName(Merged[a])) = Lower(DisplayName(Merged[b])))
                => unique_labels.value[Merged[a].uri] # unique_labels.value[Merged[b].uri]

-----------------------------------------------------------------------------
(* The Expression Decoder on self-referential nesting *)

\* C27: the decoder terminates when the list of an anonymous list member
\* holds that same member, directly or through further lists: no call of
\* _process_class_expression, and none of _get_elements_from_target, is
\* entered for a node while a call of the same function for that node is
\* still under way (the functions read the graph only, so a call re-entered
\* with the argument of a pending one repeats it without end).
C27_NoReentrantDecoding ==
    \A i, j \in 1..Len(stack) :
        (/\ i < j
         /\ stack[i].fn \in {"expr", "target"}
         /\ stack[i].fn = stack[j].fn)
            => stack[i].node # stack[j].node

-----------------------------------------------------------------------------
(* OntologyProcessor: import processing *)

\* {str(o) for (s, OWL.imports, o) in self.graph if isinstance(o, URIRef)
\*  and str(o) not in self.imported_ontologies}
PendingImports(objects, imported) ==
    {Str(o) : o \in {x \in objects : IsURIRef(x) /\ Str(x) \notin imported}}

\* lines 126-133: the imports stated in the parsed ontology; depth = 0
FindImports ==
    /\ import_pc = "find"
    /\ imports_to_process' = PendingImports(graph_imports, imported_ontologies)
    /\ depth' = 0
    /\ import_pc' = "while"
    /\ UNCHANGED <<import_options, web, graph_imports, current_imports,
                   imported_ontologies, rounds, loads, failed_loads,
                   imports_outcome>>
    /\ EarlyUnchanged
    /\ LateUnchangedBut("imports")

\* the test of the while loop and, when it holds, the copy and clear that
\* open a round; the return when it fails
BeginRound ==
    /\ import_pc = "while"
    /\ IF imports_to_process # {} /\ depth < import_options.max_import_depth
       THEN /\ current_imports' = imports_to_process
            /\ imports_to_process' = {}
            /\ rounds' = rounds + 1
            /\ import_pc' = "for"
            /\ UNCHANGED imports_outcome
       ELSE /\ import_pc' = "done"
            /\ imports_outcome' = Returned(NoneT)
            /\ UNCHANGED <<current_imports, imports_to_process, rounds>>
    /\ UNCHANGED <<import_options, web, graph_imports, imported_ontologies,
                   depth, loads, failed_loads>>
    /\ EarlyUnchanged
    /\ LateUnchangedBut("imports")

\* one iteration of `for import_uri in current_imports`, the set iterated in
\* any order: _load_import merges the fetched ontology or raises, and the
\* except clause prints the warning
LoadImport ==
    /\ import_pc = "for"
    /\ \E import_uri \in current_imports :
          /\ current_imports' = current_imports \ {import_uri}
          /\ loads' = Append(loads, import_uri)
          /\ \/ /\ web[import_uri].fetched
                /\ graph_imports' = graph_imports \cup web[import_uri].imports
                /\ imported_ontologies' = imported_ontologies \cup {import_uri}
                /\ imports_to_process' =
                      IF import_options.include_closure
                      THEN imports_to_process
                           \cup PendingImports(graph_imports', imported_ontologies')
                      ELSE imports_to_process
                /\ UNCHANGED failed_loads
             \/ /\ ~web[import_uri].always
                /\ failed_loads' = Append(failed_loads, import_uri)
                /\ UNCHANGED <<graph_imports, imported_ontologies, imports_to_process>>
    /\ UNCHANGED <<import_pc, import_options, web, depth, rounds, imports_outcome>>
    /\ EarlyUnchanged
    /\ LateUnchangedBut("imports")

\* the mutation of the round counter: depth is left as it is
SameDepth(d) == d

\* depth += 1
NextDepth(d) == d + 1

\* the end of a round: depth += 1, and the break when only the direct
\* imports are processed
EndRound ==
    /\ import_pc = "for"
    /\ current_imports = {}
    /\ depth' = NextDepth(depth)
    /\ IF ~import_options.include_closure
       THEN /\ import_pc' = "done"
            /\ imports_outcome' = Returned(NoneT)
       ELSE /\ import_pc' = "while"
            /\ UNCHANGED imports_outcome
    /\ UNCHANGED <<import_options, web, graph_imports, imports_to_process,
                   current_imports, imported_ontologies, rounds, loads,
                   failed_loads>>
    /\ EarlyUnchanged
    /\ LateUnchangedBut("imports")

\* the ontologies of the run: the processed one is A; B and C can be
\* imported, each importing any of the others (so cyclic imports), each
\* fetched and parsed every time, never, or some of the times
MaxImportDepth == 2
ImportUris == {"http://ex.org/A", "http://ex.org/B", "http://ex.org/C"}
MainOntology == "http://ex.org/A"
Imported(fetched, always, imports) ==
    [fetched |-> fetched, always |-> always, imports |-> imports]
ImportSets(self) == SUBSET {U(u) : u \in ImportUris \ {self}}
Webs ==
    {w \in [ImportUris ->
              {Imported(f, a, i) : f \in BOOLEAN, a \in BOOLEAN,
                                   i \in SUBSET {U(u) : u \in ImportUris}}] :
        /\ \A u \in ImportUris : w[u].imports \in ImportSets(u)
        /\ \A u \in ImportUris : w[u].always => w[u].fetched
        /\ w[MainOntology].fetched /\ w[MainOntology].always}

InitImports ==
    /\ web \in Webs
    /\ \E note \in SUBSET {Lit("http://ex.org/C", "")} :
          graph_imports = web[MainOntology].imports \cup note
    /\ import_options \in [include_closure : BOOLEAN,
                           max_import_depth : 0..MaxImportDepth]
    /\ import_pc = "find"
    /\ imports_to_process = {}
    /\ current_imports = {}
    /\ imported_ontologies = {}
    /\ depth = 0
    /\ rounds = 0
    /\ loads = <<>>
    /\ failed_loads = <<>>
    /\ imports_outcome = Pending
    /\ graph = [s \in {} |-> <<>>]
    /\ WalkIdle
    /\ LiteralIdle
    /\ LabelIdle
    /\ NameIdle
    /\ ProcessIdle
    /\ ExtractIdle
    /\ LateIdleBut("imports")

NextImports ==
    \/ FindImports
    \/ BeginRound
    \/ LoadImport
    \/ EndRound

SpecImports == InitImports /\ [][NextImports]_vars

\* the scheduling of a sequential call: the statement the call stands at is
\* executed
SpecImportsRun == SpecImports /\ WF_vars(NextImports)

\* C28: _process_imports makes at most max_import_depth rounds when
\* include_closure is set and at most one round otherwise, and then returns,
\* whatever the imports (cyclic ones included) and however often a load
\* fails; it never raises.
C28_ImportsTerminate ==
    /\ [](/\ rounds <= (IF import_options.include_closure
                        THEN import_options.max_import_depth ELSE 1)
          /\ rounds <= import_options.max_import_depth
          /\ imports_outcome # Pending => imports_outcome = Returned(NoneT))
    /\ <>(import_pc = "done" /\ imports_outcome = Returned(NoneT))

\* the call returned after max_import_depth = 2 rounds of closure processing
\* over ontologies that import each other, with a load that failed in both
\* rounds
C28_Witness ==
    /\ import_pc = "done"
    /\ import_options.include_closure
    /\ rounds = 2
    /\ import_options.max_import_depth = 2
    /\ U(MainOntology) \in web["http://ex.org/B"].imports
    /\ Len(failed_loads) = 2
    /\ failed_loads[1] = failed_loads[2]

\* how often u occurs in the sequence q
Occurrences(q, u) == Cardinality({i \in 1..Len(q) : q[i] = u})

\* C29: within one call _load_import is invoked at most once for every
\* import URI, across all rounds and whatever the order in which the
\* imports of a round are handled.
C29_LoadedAtMostOnce ==
    \A u \in ImportUris : Occurrences(loads, u) <= 1

-----------------------------------------------------------------------------
(* OntologyParser: the label of a named restriction target *)

\* the label of the Element _get_elements_from_target builds for a node
\* that is no BNode, q being the outcome of compute_qname(node)
label_of_target(node, q) ==
    LET label == get_literal(node, <<"rdfs:label">>)
    IN  IF label # None /\ label[1] # "" THEN label[1]
        ELSE IF q.raised THEN Str(node)
        ELSE IF q.prefix # "" THEN q.prefix \o ":" \o q.name
        ELSE q.name

GetElementsFromNamedTarget ==
    /\ target_label = Pending
    /\ name_subject # NoneT
    /\ name_subject.k # "bnode"
    /\ target_label' = Returned(label_of_target(name_subject, qname))
    /\ EarlyUnchanged
    /\ LateUnchangedBut("target")

\* both paths are run on the nodes, labels and prefixed-name outcomes of the
\* Name Resolver
InitNaming == InitName

NextNaming ==
    \/ GetLabelOrQName
    \/ GetElementsFromNamedTarget

SpecNaming == InitNaming /\ [][NextNaming]_vars

\* C30: for a named node the label computed for it as a restriction target
\* equals the label the Name Resolver computes for the same node and the
\* same prefix table, the default-prefix and the generated-prefix cases
\* included.
C30_OneNamingRule ==
    (/\ name_subject.k = "uri"
     /\ target_label # Pending
     /\ resolved_name # Pending)
        => target_label.value = resolved_name.value

====
